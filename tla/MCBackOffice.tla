---------------------------- MODULE MCBackOffice ----------------------------
(***************************************************************************)
(* Small instances, for TLC, of the components of BackOffice.  One of them *)
(* takes steps and the others rest, from the beginning: the state spaces   *)
(* are added, not multiplied.                                              *)
(***************************************************************************)
EXTENDS BackOffice, TLC

CONSTANTS adm, x1, x2, small, Small, big, huge, ours, theirs

VARIABLE part  \* the component that is at work

\* Names and emails that differ in case only.
LowerCase == (small :> "small") @@ (Small :> "small") @@ (big :> "big") @@ (huge :> "huge")

\* Two rows that nothing but the id tells apart, one that is retired, and one of others.
Row(id, of, at, name, in) ==
  [id |-> id, business |-> of, outlet |-> at, name |-> name, unit |-> name,
   active |-> in, deleted |-> FALSE, at |-> name, status |-> 1]
ListedRows ==
  {Row(1, ours, x1, 1, TRUE), Row(2, ours, x1, 1, TRUE),
   Row(3, ours, x2, 2, FALSE), Row(4, theirs, x2, 1, TRUE)}

\* Two orders of one customer.
CustomerOf == <<x1, x1>>
TotalOf == <<2, 1>>

MCInit ==
  /\ part \in {"expenses", "perfumes", "services", "customers", "two templates", "three templates",
               "listings", "reports", "tenants", "limiter"}
  /\ part # "listings" => rows = {} /\ ask = CHOOSE q \in Pages!ListOutlets : TRUE
  /\ BackOfficeInit
  \* Others have had a row all along.
  /\ part = "listings" => \E r \in rows : r.business = theirs

\* The administrator stays in service, others come and go.
ExpensesAtWork == part = "expenses" /\ ExpenseStep /\ adm \in active'

CatalogCalls(name) ==
  CASE name = "perfumes" -> Catalog!PerfumeCalls
    [] name = "services" -> Catalog!ServiceCalls
    [] name = "customers" -> Catalog!CustomerCalls

\* One catalog at a time.
CatalogsAtWork ==
  /\ part \in {"perfumes", "services", "customers"}
  /\ CatalogStep
  /\ \A r \in Requests :
       catalogTx'[r].phase # "idle" => catalogTx'[r].call \in CatalogCalls(part)

\* Two requests about two templates, of users who go on serving and exchange the names
\* when they rename, or one at a time about three.
Usual == <<small, big, huge>>
TemplatesAtWork ==
  /\ part \in {"two templates", "three templates"}
  /\ TemplateStep
  /\ part = "two templates" => serving'
  /\ part = "three templates" => \E r \in Requests : templateTx'[r].phase = "idle"
  /\ \A r \in Requests : LET call == templateTx'[r].call IN
       call.op # "none" =>
         CASE part = "two templates" -> /\ call.template # 3
                                        /\ call.op = "CREATE" => call.name = Usual[call.template]
                                        /\ call.op = "UPDATE" => call.name # huge
           [] part = "three templates" -> call.op # "DELETE" => call.name = Usual[call.template]

\* Days of two ticks, which begin in the middle of those of UTC; one transaction at a
\* time, which may end on the day after it began.
ReportsAtWork ==
  /\ part = "reports"
  /\ ReportStep
  /\ \A r, s \in Requests : began'[r] # -1 /\ began'[s] # -1 => r = s

MCNext ==
  /\ \/ ExpensesAtWork \/ CatalogsAtWork \/ TemplatesAtWork \/ ReportsAtWork
     \/ part = "listings" /\ ListingStep
     \/ part = "tenants" /\ TenantStep
     \/ part = "limiter" /\ LimiterStep
  /\ UNCHANGED part

MCSpec == MCInit /\ [][MCNext]_<<backOfficeVars, part>>

\* Amounts of expenses are not calculated with.
RequestAndAmountSymmetry == Permutations(Requests) \cup Permutations(Amounts)
=============================================================================
