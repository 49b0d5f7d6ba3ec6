--------------------------- MODULE PaymentLedger ---------------------------
(***************************************************************************)
(* What the Payments Worker promises a merchant, without its queues,       *)
(* scans, retries and batches: a payment the chain executed is credited    *)
(* once, whole, and told in the step that credits it; an intent that took  *)
(* money never goes back.                                                  *)
(***************************************************************************)
EXTENDS Naturals

CONSTANTS Intents, Payments

VARIABLES status,    \* what the merchant reads of an intent
          sandbox,   \* the intents created with a test key
          paid,      \* the cumulative amount of an intent
          executed,  \* payments on a chain
          credited,  \* payments the ledger has taken
          told       \* <<payment, cumulative amount>> of every announcement

vars == <<status, sandbox, paid, executed, credited, told>>

Init ==
  /\ status = [i \in Intents |-> "none"] /\ sandbox = {}
  /\ paid = [i \in Intents |-> 0]
  /\ executed = {} /\ credited = {} /\ told = {}

(* A merchant opens an intent. *)
Open(i) ==
  /\ status[i] = "none" /\ status' = [status EXCEPT ![i] = "awaiting_payment"]
  /\ sandbox' \in {sandbox, sandbox \cup {i}}
  /\ UNCHANGED <<paid, executed, credited, told>>

(* Only an intent that took no money is canceled. *)
Cancel(i) ==
  /\ status[i] = "awaiting_payment" /\ status' = [status EXCEPT ![i] = "canceled"]
  /\ UNCHANGED <<sandbox, paid, executed, credited, told>>

(* A router executes a payment, whatever the ledger knows of it. *)
Execute(a) ==
  /\ executed' = executed \cup {a}
  /\ UNCHANGED <<status, sandbox, paid, credited, told>>

(* The ledger takes an executed payment: once, announced with the new sum.   *)
(* A late payment of a canceled intent is taken too.                         *)
Credit(a, i) ==
  /\ a \in executed \ credited /\ status[i] # "none"
  /\ credited' = credited \cup {a}
  /\ paid'[i] > paid[i] /\ paid' = [paid EXCEPT ![i] = paid'[i]]
  /\ told' = told \cup {<<a, paid'[i]>>}
  /\ \E s \in {"paid", "overpaid"} :
       /\ status[i] = "overpaid" => s = "overpaid"
       /\ status' = [status EXCEPT ![i] = s]
  /\ UNCHANGED <<sandbox, executed>>

(* The sandbox pays an open test intent without a chain. *)
Simulate(i) ==
  /\ i \in sandbox /\ status[i] = "awaiting_payment"
  /\ status' = [status EXCEPT ![i] = "paid"]
  /\ paid[i] = 0 /\ paid' = [paid EXCEPT ![i] = paid'[i]]
  /\ UNCHANGED <<sandbox, executed, credited, told>>

Next ==
  \/ \E i \in Intents : Open(i) \/ Cancel(i) \/ Simulate(i)
  \/ \E a \in Payments : Execute(a) \/ \E i \in Intents : Credit(a, i)

Spec == Init /\ [][Next]_vars
=============================================================================
