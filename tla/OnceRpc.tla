------------------------------ MODULE OnceRpc ------------------------------
(***************************************************************************)
(* What a tracked request promises its submitter, whatever the ring loses, *)
(* delays or repeats: it is closed exactly once; an answer is one the      *)
(* server produced for this very request; and a request that is not        *)
(* idempotent is executed at most once between two restarts of its server. *)
(* The system design document states the promise in section 2.6.           *)
(***************************************************************************)
CONSTANTS
  Requests,   \* request identities, never reused
  Replies     \* what a server may answer

VARIABLES
  state,      \* "idle", "open" or "closed"
  idempotent, \* whether repeating the request is harmless, known once it is open
  ran,        \* executed since its server last restarted
  produced,   \* replies the server has produced for it
  answer      \* what the submitter was told; "none" when nothing, or a give-up

rpcVars == <<state, idempotent, ran, produced, answer>>

Init ==
  /\ state = [r \in Requests |-> "idle"]
  /\ idempotent \in [Requests -> BOOLEAN]
  /\ ran = [r \in Requests |-> FALSE]
  /\ produced = [r \in Requests |-> {}]
  /\ answer = [r \in Requests |-> "none"]

Call(r) ==
  /\ state[r] = "idle"
  /\ state' = [state EXCEPT ![r] = "open"]
  /\ \E b \in BOOLEAN : idempotent' = [idempotent EXCEPT ![r] = b]
  /\ UNCHANGED <<ran, produced, answer>>

Refuse(r) ==
  /\ state[r] = "idle"
  /\ state' = [state EXCEPT ![r] = "closed"]
  /\ \E b \in BOOLEAN : idempotent' = [idempotent EXCEPT ![r] = b]
  /\ UNCHANGED <<ran, produced, answer>>

(* An execution may come late, after the submitter has given up. *)
Execute(r) ==
  /\ state[r] # "idle"
  /\ idempotent[r] \/ ~ran[r]
  /\ ran' = [ran EXCEPT ![r] = TRUE]
  /\ \/ UNCHANGED produced
     \/ \E x \in Replies : produced' = [produced EXCEPT ![r] = @ \cup {x}]
  /\ UNCHANGED <<state, idempotent, answer>>

Produce(r) ==
  /\ ran[r]
  /\ \E x \in Replies : produced' = [produced EXCEPT ![r] = @ \cup {x}]
  /\ UNCHANGED <<state, idempotent, ran, answer>>

Answer(r) ==
  /\ state[r] = "open"
  /\ \E x \in produced[r] : answer' = [answer EXCEPT ![r] = x]
  /\ state' = [state EXCEPT ![r] = "closed"]
  /\ UNCHANGED <<idempotent, ran, produced>>

GiveUp(r) ==
  /\ state[r] = "open"
  /\ state' = [state EXCEPT ![r] = "closed"]
  /\ UNCHANGED <<idempotent, ran, produced, answer>>

Restart(served) ==
  /\ ran' = [r \in Requests |-> ran[r] /\ r \notin served]
  /\ UNCHANGED <<state, idempotent, produced, answer>>

Next ==
  \/ \E r \in Requests :
       Call(r) \/ Refuse(r) \/ Execute(r) \/ Produce(r) \/ Answer(r) \/ GiveUp(r)
  \/ \E served \in SUBSET Requests : Restart(served)

Spec == Init /\ [][Next]_rpcVars
=============================================================================
