------------------------- MODULE AppLifecycleProofs -------------------------
(***************************************************************************)
(* Proofs about AppLifecycle for every set of services and modules: the    *)
(* state stays well typed.  TypeOK is inductive as it stands.              *)
(***************************************************************************)
EXTENDS AppLifecycle, TLAPS

LEMMA CheckOrderLen == Len(CheckOrder) = 3
  BY DEF CheckOrder

\* The values readyHandler's counter takes.
LEMMA ReadyPcRange == 0..Len(CheckOrder) + 1 = 0..4
  BY CheckOrderLen

LEMMA InitTypeOK == Init => TypeOK
  <1> SUFFICES ASSUME Init PROVE TypeOK
    OBVIOUS
  <1>1. 0 \in 0..4 /\ 0 \in {0, 200, 503} /\ 0 \in {0, 200, 500, Panicked}
    BY DEF Panicked
  <1>2. svc \in [Services -> States]
    BY DEF Init, States
  <1>3. QED
    BY <1>1, <1>2, ReadyPcRange, Zenon DEF Init, TypeOK

\* StopAsync keeps every service in a state of the manager.
LEMMA StopAsyncType ==
    ASSUME TypeOK, StopAsync PROVE svc' \in [Services -> States]
  BY DEF TypeOK, StopAsync, States

LEMMA NextTypeOK == TypeOK /\ [Next]_vars => TypeOK'
  <1> SUFFICES ASSUME TypeOK, [Next]_vars PROVE TypeOK'
    OBVIOUS
  <1> USE ReadyPcRange DEF TypeOK
  <1>1. CASE RunStart
    <2>1. CASE \A s \in Services : svc[s] = "New"
      BY <1>1, <2>1 DEF RunStart, States
    <2>2. CASE ~\A s \in Services : svc[s] = "New"
      <3>1. PICK started \in SUBSET {s \in Services : svc[s] = "New"} :
              svc' = [s \in Services |-> IF s \in started THEN "Starting" ELSE svc[s]]
        BY <1>1, <2>2 DEF RunStart
      <3>2. svc' \in [Services -> States]
        BY <3>1 DEF States
      <3>3. QED
        BY <1>1, <2>2, <3>2 DEF RunStart
    <2>3. QED
      BY <2>1, <2>2
  <1>2. CASE RunReturns
    BY <1>2 DEF RunReturns
  <1>3. CASE SignalReceived
    BY <1>3, StopAsyncType DEF SignalReceived
  <1>4. ASSUME NEW s \in Services, ServiceFailed(s) PROVE TypeOK'
    BY <1>4, StopAsyncType DEF ServiceFailed
  <1>5. ASSUME NEW s \in Services,
               ServiceRuns(s) \/ ServiceTerminates(s) \/ ServiceFails(s)
        PROVE TypeOK'
    BY <1>5 DEF ServiceRuns, ServiceTerminates, ServiceFails, States
  <1>6. ASSUME NEW m \in ReadyModules, ModuleReadiness(m) PROVE TypeOK'
    BY <1>6 DEF ModuleReadiness
  <1>7. CASE ReadyBegin
    BY <1>7 DEF ReadyBegin
  <1>8. CASE ReadyCheck
    BY <1>8 DEF ReadyCheck
  <1>9. CASE ReadyAnswers
    BY <1>9 DEF ReadyAnswers
  <1>10. CASE StatusRequest
    BY <1>10 DEF StatusRequest, Panicked
  <1>11. CASE UNCHANGED vars
    BY <1>11 DEF vars
  <1>12. QED
    BY <1>1, <1>2, <1>3, <1>4, <1>5, <1>6, <1>7, <1>8, <1>9, <1>10, <1>11
    DEF Next

\* The process's state stays well typed: services in manager states,
\* readyHandler between its checks, answers among the statuses it writes.
THEOREM TypeCorrect == Spec => []TypeOK
  BY InitTypeOK, NextTypeOK, PTL DEF Spec

=============================================================================
