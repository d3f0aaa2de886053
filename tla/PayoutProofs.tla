---------------------------- MODULE PayoutProofs ----------------------------
(*****************************************************************************)
(* The payout saga, for any number of requests, workers, operators, sessions *)
(* and crashes: every reachable state is of the declared shape; no cash      *)
(* leaves without a deduction and the books say what happened; the saga      *)
(* implements the capacity model; a withdrawal leaves the buffer alone.      *)
(*****************************************************************************)
EXTENDS PayoutInvariant, SumProofs

\* The pure rules map integers to integers.
LEMMA RulesTyped ==
    /\ \A b, t \in Int : AccountLimit(b, t) \in Int
    /\ \A h \in Int : ComputeThreshold(h) \in Int
    /\ \A h, e \in Int : NextHighWater(h, e) \in Int
    /\ \A t, h, e \in Int : NextThreshold(t, h, e) \in Int
BY RulesAssumption, RiskAssumption
   DEF AccountLimit, Least, NonNegative, ComputeThreshold, NextHighWater,
       NextThreshold, Larger

LEMMA IdleTyped ==
    /\ NoView \in View
    /\ IdleWorker \in Worker /\ IdleWorker.pc = "idle"
    /\ IdleOperator \in Operator /\ IdleOperator.pc = "idle"
    /\ IdleSync \in Poll
BY PayoutAssumption
   DEF NoView, View, Days, IdleWorker, Worker, WorkerPCs, Stages,
       IdleOperator, Operator, OperatorPCs, IdleSync, Poll

LEMMA ViewTyped == TypeOK => AccountView \in View
BY RulesTyped DEF TypeOK, AccountType, AccountRow, AccountView, View

LEMMA InitTyped == Init => TypeOK
<1> SUFFICES ASSUME Init PROVE TypeOK
  OBVIOUS
<1> USE DEF Init
<1>1. AccountType
  <2>1. 1 \in Days
    BY PayoutAssumption DEF Days
  <2>2. PICK b \in FirstBalances :
          /\ prov = [bal |-> b, seq |-> 1, flat |-> TRUE, done |-> {}]
          /\ acct = [bal |-> b, high |-> b, thr |-> ComputeThreshold(b),
                     day |-> 1, open |-> b, wd |-> 0, seq |-> 1,
                     stale |-> FALSE, flat |-> TRUE, status |-> "ACTIVE",
                     paused |-> {}]
    OBVIOUS
  <2>3. b \in Int /\ ComputeThreshold(b) \in Int
    BY RulesTyped, PayoutAssumption
  <2>4. acct \in AccountRow
    BY <2>1, <2>2, <2>3 DEF AccountRow
  <2>5. prov \in ProviderAccount
    BY <2>2, <2>3 DEF ProviderAccount
  <2> QED
    BY <2>1, <2>4, <2>5, IdleTyped, PayoutAssumption DEF AccountType
<1>2. RequestType
  BY IdleTyped, PayoutAssumption
     DEF RequestType, Call, PayoutState, Days, NoRow
<1>3. ProcessType
  BY IdleTyped, PayoutAssumption DEF ProcessType, At, Handling
<1> QED
  BY <1>1, <1>2, <1>3 DEF TypeOK

\* What an action leaves alone keeps its type.
LEMMA UnchangedTyped ==
    /\ AccountType /\ UNCHANGED acctVars => AccountType'
    /\ RequestType /\ UNCHANGED reqVars => RequestType'
    /\ ProcessType /\ UNCHANGED procVars => ProcessType'
BY DEF AccountType, acctVars, RequestType, reqVars, ProcessType, procVars,
       At, Handling

\* A busy worker moves to another step, or becomes idle.
LEMMA WorkerTyped ==
    ASSUME ProcessType, NEW w \in Workers,
           \/ \E pc \in WorkerPCs : ~At(w, "idle") /\ Advance(w, pc)
           \/ worker' = [worker EXCEPT ![w] = IdleWorker],
           jobs' \in [JobIds -> {"none", "pending", "claimed", "done"}],
           ledger' \subseteq ({"accrue", "sim", "cash", "settle"} \X Calls),
           crashes' \in 0 .. MaxCrashes,
           UNCHANGED <<oper, rail>>
    PROVE  ProcessType'
<1>1. CASE \E pc \in WorkerPCs : ~At(w, "idle") /\ Advance(w, pc)
  <2>1. PICK pc \in WorkerPCs : ~At(w, "idle") /\ Advance(w, pc)
    BY <1>1
  <2>2. worker' \in [Workers -> Worker]
    BY <2>1 DEF ProcessType, Worker, Advance
  <2>3. \A v \in Workers : ~At(v, "idle")' => worker'[v].call \in Calls
    BY <2>1 DEF ProcessType, Worker, Advance, At
  <2> QED
    BY <2>2, <2>3 DEF ProcessType, Handling
<1>2. CASE worker' = [worker EXCEPT ![w] = IdleWorker]
  BY <1>2, IdleTyped DEF ProcessType, At, Handling
<1> QED
  BY <1>1, <1>2

\* The same for an operator.
LEMMA OperatorTyped ==
    ASSUME ProcessType, NEW o \in Operators,
           \/ \E pc \in OperatorPCs : ~Handling(o, "idle") /\ OpAdvance(o, pc)
           \/ oper' = [oper EXCEPT ![o] = IdleOperator]
           \/ \E pc \in OperatorPCs, c \in Calls : Begin(o, c, pc),
           ledger' \subseteq ({"accrue", "sim", "cash", "settle"} \X Calls),
           crashes' \in 0 .. MaxCrashes,
           UNCHANGED <<jobs, worker, rail>>
    PROVE  ProcessType'
<1>1. CASE \E pc \in OperatorPCs : ~Handling(o, "idle") /\ OpAdvance(o, pc)
  <2>1. PICK pc \in OperatorPCs : ~Handling(o, "idle") /\ OpAdvance(o, pc)
    BY <1>1
  <2>2. oper' \in [Operators -> Operator]
    BY <2>1 DEF ProcessType, Operator, OpAdvance
  <2>3. \A p \in Operators : ~Handling(p, "idle")' => oper'[p].call \in Calls
    BY <2>1 DEF ProcessType, Operator, OpAdvance, Handling
  <2> QED
    BY <2>2, <2>3 DEF ProcessType, At
<1>2. CASE oper' = [oper EXCEPT ![o] = IdleOperator]
  BY <1>2, IdleTyped DEF ProcessType, At, Handling
<1>3. CASE \E pc \in OperatorPCs, c \in Calls : Begin(o, c, pc)
  <2>1. PICK pc \in OperatorPCs, c \in Calls : Begin(o, c, pc)
    BY <1>3
  <2>2. [pc |-> pc, call |-> c, held |-> resv[c] = "ACTIVE"] \in Operator
    BY DEF Operator
  <2> QED
    BY <2>1, <2>2 DEF ProcessType, Begin, At, Handling
<1> QED
  BY <1>1, <1>2, <1>3

\* recordTransition writes a payout state.
LEMMA StateTyped ==
    ASSUME RequestType, NEW c, NEW s \in PayoutState,
           state' = [state EXCEPT ![c] = s],
           UNCHANGED <<gross, call, resv, rday>>
    PROVE  RequestType'
BY DEF RequestType

\* Overwriting fields with integers keeps the provider's account and the
\* account row well formed.
LEMMA ProviderUpdate ==
    ASSUME prov \in ProviderAccount, NEW b \in Int, NEW n \in Int,
           NEW f \in BOOLEAN, NEW d \in SUBSET ProviderKeys
   
PROVE   /\ [prov EXCEPT !.bal = b, !.seq = n, !.flat = f] \in ProviderAccount
           /\ [prov EXCEPT !.flat = f, !.seq = n] \in ProviderAccount
           /\ [prov EXCEPT !.bal = b, !.seq = n, !.done = d] \in ProviderAccount
BY DEF ProviderAccount

LEMMA AccountUpdate ==
    ASSUME acct \in AccountRow, NEW b \in Int, NEW n \in Int
    PROVE  [acct EXCEPT !.bal = b, !.wd = n] \in AccountRow
BY DEF AccountRow

\* An adjustment applied by the provider, and a confirmed flatten.
LEMMA AppliedTyped ==
    ASSUME AccountType, NEW c \in Calls, NEW delta \in Int,
           NEW k \in {"deduct", "reverse"}
    PROVE  Applied(<<k, c>>, delta) \in ProviderAccount
<1> DEFINE b == prov.bal + delta
           n == prov.seq + 1
           d == prov.done \union {<<k, c>>}
<1>1. prov \in ProviderAccount
  BY DEF AccountType
<1>2. b \in Int /\ n \in Int
  BY <1>1 DEF ProviderAccount
<1>3. <<k, c>> \in ProviderKeys
  BY DEF ProviderKeys
<1>4. d \in SUBSET ProviderKeys
  BY <1>1, <1>3 DEF ProviderAccount
<1>5. Applied(<<k, c>>, delta)
        = IF <<k, c>> \in prov.done THEN prov
          ELSE [prov EXCEPT !.bal = b, !.seq = n, !.done = d]
  BY DEF Applied
<1> HIDE DEF b, n, d
<1>6. prov.flat \in BOOLEAN
  BY <1>1 DEF ProviderAccount
<1>7. [prov EXCEPT !.bal = b, !.seq = n, !.done = d] \in ProviderAccount
  BY <1>1, <1>2, <1>4, <1>6, ProviderUpdate
<1> QED
  BY <1>1, <1>5, <1>7

LEMMA FlattenedTyped ==
    ASSUME AccountType
    PROVE  prov \in ProviderAccount /\ Flattened \in ProviderAccount
<1> DEFINE n == prov.seq + 1
<1>1. prov \in ProviderAccount
  BY DEF AccountType
<1>2. n \in Int
  BY <1>1 DEF ProviderAccount
<1>3. Flattened = [prov EXCEPT !.flat = TRUE, !.seq = n]
  BY DEF Flattened
<1> HIDE DEF n
<1> QED
  BY <1>1, <1>2, <1>3, ProviderUpdate

\* Amounts are integers.
LEMMA AmountTyped ==
    ASSUME RequestType, NEW c \in Calls
    PROVE  gross[c] \in Int /\ -gross[c] \in Int
<1>1. Asks \subseteq Int
  BY PayoutAssumption, MaxCashAssumption
<1>2. gross[c] \in Asks
  BY DEF RequestType
<1>3. gross[c] \in Int
  BY <1>1, <1>2
<1> QED
  BY <1>3

\* Every step keeps every record well formed.
LEMMA NextTyped == TypeOK /\ [Next]_vars => TypeOK'
<1> SUFFICES ASSUME TypeOK, [Next]_vars PROVE TypeOK'
  OBVIOUS
<1>0. AccountType /\ RequestType /\ ProcessType
  BY DEF TypeOK
<1>1. ASSUME NEW c \in Calls, RequestRead(c) PROVE TypeOK'
  <2>1. AccountType'
    BY <1>0, <1>1, UnchangedTyped DEF RequestRead
  <2>2. RequestType'
    BY <1>0, <1>1, ViewTyped, IdleTyped DEF RequestRead, RequestType, Call
  <2>3. ProcessType'
    BY <1>0, <1>1, UnchangedTyped DEF RequestRead
  <2> QED
    BY <2>1, <2>2, <2>3 DEF TypeOK
<1>2. ASSUME NEW c \in Calls, RequestValidate(c) PROVE TypeOK'
  <2>1. AccountType'
    BY <1>0, <1>2, UnchangedTyped DEF RequestValidate
  <2>2. RequestType'
    BY <1>0, <1>2 DEF RequestValidate, RequestType, Call
  <2>3. ProcessType'
    BY <1>0, <1>2, UnchangedTyped DEF RequestValidate
  <2> QED
    BY <2>1, <2>2, <2>3 DEF TypeOK
<1>3. ASSUME NEW c \in Calls, RequestReserve(c) PROVE TypeOK'
  <2>1. AccountType'
    BY <1>0, <1>3, UnchangedTyped DEF RequestReserve
  <2>2. RequestType'
    <3>1. call[c] \in Call /\ call[c].view.day \in Days
      BY <1>0 DEF RequestType, Call, View
    <3>2. call' \in [Calls -> Call]
      BY <1>0, <1>3 DEF RequestReserve, RequestType, Call
    <3>3. rday' \in [Calls -> Days]
      BY <1>0, <1>3, <3>1 DEF RequestReserve, RequestType
    <3>4. state' \in [Calls -> PayoutState \union {NoRow}]
      BY <1>0, <1>3 DEF RequestReserve, RequestType, PayoutState
    <3>5. resv' \in [Calls -> {"NONE", "ACTIVE", "CONSUMED", "RELEASED"}]
      BY <1>0, <1>3 DEF RequestReserve, RequestType
    <3> QED
      BY <1>0, <1>3, <3>2, <3>3, <3>4, <3>5 DEF RequestReserve, RequestType
  <2>3. ProcessType'
    BY <1>0, <1>3
       DEF RequestReserve, ProcessType, At, Handling, JobIds, Stages
  <2> QED
    BY <2>1, <2>2, <2>3 DEF TypeOK
<1>4. ASSUME NEW w \in Workers, Claim(w) PROVE TypeOK'
  <2>1. AccountType'
    BY <1>0, <1>4, UnchangedTyped DEF Claim
  <2>2. RequestType'
    BY <1>0, <1>4, UnchangedTyped DEF Claim
  <2>3. ProcessType'
    BY <1>0, <1>4, IdleTyped
       DEF Claim, ProcessType, At, Handling, Worker, WorkerPCs, Stages, JobIds
  <2> QED
    BY <2>1, <2>2, <2>3 DEF TypeOK
<1>5. ASSUME NEW w \in Workers, Finish(w) PROVE TypeOK'
  <2>1. AccountType'
    BY <1>0, <1>5, UnchangedTyped DEF Finish
  <2>2. RequestType'
    BY <1>0, <1>5, UnchangedTyped DEF Finish
  <2>3. ProcessType'
    BY <1>0, <1>5, WorkerTyped DEF Finish, At, ProcessType, WorkerPCs
  <2> QED
    BY <2>1, <2>2, <2>3 DEF TypeOK
<1>6. ASSUME NEW w \in Workers, WorkerCrash(w) PROVE TypeOK'
  <2>1. AccountType'
    BY <1>0, <1>6, UnchangedTyped DEF WorkerCrash
  <2>2. RequestType'
    BY <1>0, <1>6, UnchangedTyped DEF WorkerCrash
  <2>3. ProcessType'
    <3>1. crashes' \in 0 .. MaxCrashes
      BY <1>0, <1>6, PayoutAssumption DEF WorkerCrash, ProcessType
    <3> QED
      BY <1>0, <1>6, <3>1, WorkerTyped DEF WorkerCrash, ProcessType
  <2> QED
    BY <2>1, <2>2, <2>3 DEF TypeOK
<1>7. ASSUME NEW w \in Workers, V_Read(w) PROVE TypeOK'
  <2>1. AccountType'
    BY <1>0, <1>7, UnchangedTyped DEF V_Read
  <2>2. RequestType'
    BY <1>0, <1>7, UnchangedTyped DEF V_Read
  <2>3. ProcessType'
    BY <1>0, <1>7, WorkerTyped DEF V_Read, At, ProcessType, WorkerPCs
  <2> QED
    BY <2>1, <2>2, <2>3 DEF TypeOK
<1>8. ASSUME NEW w \in Workers, V_Mark(w) PROVE TypeOK'
  <2>1. AccountType'
    BY <1>0, <1>8, UnchangedTyped DEF V_Mark
  <2>2. RequestType'
    BY <1>0, <1>8, StateTyped DEF V_Mark, RecordTransition, PayoutState
  <2>3. ProcessType'
    BY <1>0, <1>8, WorkerTyped DEF V_Mark, At, ProcessType, WorkerPCs
  <2> QED
    BY <2>1, <2>2, <2>3 DEF TypeOK
<1>9. ASSUME NEW w \in Workers, V_Account(w) PROVE TypeOK'
  <2>1. AccountType'
    BY <1>0, <1>9, UnchangedTyped DEF V_Account
  <2>2. RequestType'
    BY <1>0, <1>9, UnchangedTyped DEF V_Account
  <2>3. ProcessType'
    BY <1>0, <1>9, ViewTyped, IdleTyped
       DEF V_Account, ProcessType, At, Handling, Worker, WorkerPCs
  <2> QED
    BY <2>1, <2>2, <2>3 DEF TypeOK
<1>10. ASSUME NEW w \in Workers, V_Decide(w) PROVE TypeOK'
  <2>1. AccountType'
    BY <1>0, <1>10, UnchangedTyped DEF V_Decide
  <2>2. RequestType'
    BY <1>0, <1>10, UnchangedTyped DEF V_Decide
  <2>3. ProcessType'
    BY <1>0, <1>10, ViewTyped, IdleTyped
       DEF V_Decide, ProcessType, At, Handling, Worker, WorkerPCs
  <2> QED
    BY <2>1, <2>2, <2>3 DEF TypeOK
<1>11. ASSUME NEW w \in Workers, V_Park(w) PROVE TypeOK'
  <2>1. AccountType'
    BY <1>0, <1>11, UnchangedTyped DEF V_Park
  <2>2. RequestType'
    BY <1>0, <1>11, StateTyped DEF V_Park, RecordTransition, PayoutState
  <2>3. ProcessType'
    BY <1>0, <1>11, WorkerTyped DEF V_Park, At, ProcessType, WorkerPCs
  <2> QED
    BY <2>1, <2>2, <2>3 DEF TypeOK
<1>12. ASSUME NEW w \in Workers, V_Approve(w) PROVE TypeOK'
  <2>1. AccountType'
    BY <1>0, <1>12, UnchangedTyped DEF V_Approve
  <2>2. RequestType'
    BY <1>0, <1>12, StateTyped DEF V_Approve, RecordTransition, PayoutState
  <2>3. ProcessType'
    BY <1>0, <1>12, WorkerTyped DEF V_Approve, At, ProcessType, WorkerPCs
  <2> QED
    BY <2>1, <2>2, <2>3 DEF TypeOK
<1>13. ASSUME NEW w \in Workers, V_Accrue(w) PROVE TypeOK'
  <2>1. AccountType'
    BY <1>0, <1>13, UnchangedTyped DEF V_Accrue
  <2>2. RequestType'
    BY <1>0, <1>13, UnchangedTyped DEF V_Accrue
  <2>3. ProcessType'
    BY <1>0, <1>13, WorkerTyped DEF V_Accrue, At, ProcessType, WorkerPCs
  <2> QED
    BY <2>1, <2>2, <2>3 DEF TypeOK
<1>14. ASSUME NEW w \in Workers, V_Enqueue(w) PROVE TypeOK'
  <2>1. AccountType'
    BY <1>0, <1>14, UnchangedTyped DEF V_Enqueue
  <2>2. RequestType'
    BY <1>0, <1>14, UnchangedTyped DEF V_Enqueue
  <2>3. ProcessType'
    BY <1>0, <1>14, WorkerTyped DEF V_Enqueue, At, ProcessType, WorkerPCs
  <2> QED
    BY <2>1, <2>2, <2>3 DEF TypeOK
<1>15. ASSUME NEW w \in Workers, S_Read(w) PROVE TypeOK'
  <2>1. AccountType'
    BY <1>0, <1>15, UnchangedTyped DEF S_Read
  <2>2. RequestType'
    BY <1>0, <1>15, UnchangedTyped DEF S_Read
  <2>3. ProcessType'
    BY <1>0, <1>15, WorkerTyped DEF S_Read, At, ProcessType, WorkerPCs
  <2> QED
    BY <2>1, <2>2, <2>3 DEF TypeOK
<1>16. ASSUME NEW w \in Workers, S_Deduct(w) PROVE TypeOK'
  <2>1. worker[w].call \in Calls
    BY <1>0, <1>16 DEF S_Deduct, ProcessType, At
  <2>2. AccountType'
    BY <1>0, <1>16, <2>1, AppliedTyped, AmountTyped DEF S_Deduct, AccountType
  <2>3. RequestType'
    BY <1>0, <1>16, UnchangedTyped DEF S_Deduct
  <2>4. ProcessType'
    BY <1>0, <1>16, WorkerTyped DEF S_Deduct, At, ProcessType, WorkerPCs
  <2> QED
    BY <2>1, <2>2, <2>3, <2>4 DEF TypeOK
<1>17. ASSUME NEW w \in Workers, S_Park(w) PROVE TypeOK'
  <2>1. AccountType'
    BY <1>0, <1>17, UnchangedTyped DEF S_Park
  <2>2. RequestType'
    BY <1>0, <1>17, StateTyped DEF S_Park, RecordTransition, PayoutState
  <2>3. ProcessType'
    BY <1>0, <1>17, WorkerTyped DEF S_Park, At, ProcessType, WorkerPCs
  <2> QED
    BY <2>1, <2>2, <2>3 DEF TypeOK
<1>18. ASSUME NEW w \in Workers, S_Mark(w) PROVE TypeOK'
  <2>1. AccountType'
    BY <1>0, <1>18, UnchangedTyped DEF S_Mark
  <2>2. RequestType'
    BY <1>0, <1>18, StateTyped DEF S_Mark, RecordTransition, PayoutState
  <2>3. ProcessType'
    BY <1>0, <1>18, WorkerTyped DEF S_Mark, At, ProcessType, WorkerPCs
  <2> QED
    BY <2>1, <2>2, <2>3 DEF TypeOK
<1>19. ASSUME NEW w \in Workers, S_Local(w) PROVE TypeOK'
  <2>1. worker[w].call \in Calls
    BY <1>0, <1>19 DEF S_Local, ProcessType, At
  <2>2. AccountType'
    <3> DEFINE g == gross[worker[w].call]
    <3>1. g \in Int
      BY <1>0, <2>1, AmountTyped
    <3> DEFINE b == acct.bal - g
               n == acct.wd + g
    <3>2. acct \in AccountRow /\ b \in Int /\ n \in Int
      BY <1>0, <3>1 DEF AccountType, AccountRow
    <3>4. acct' = [acct EXCEPT !.bal = b, !.wd = n]
      BY <1>19 DEF S_Local
    <3> HIDE DEF b, n
    <3>3. acct' \in AccountRow
      BY <3>2, <3>4, AccountUpdate
    <3> QED
      BY <1>0, <1>19, <3>3 DEF S_Local, AccountType
  <2>3. RequestType'
    BY <1>0, <1>19, UnchangedTyped DEF S_Local
  <2>4. ProcessType'
    BY <1>0, <1>19, WorkerTyped DEF S_Local, At, ProcessType, WorkerPCs
  <2> QED
    BY <2>1, <2>2, <2>3, <2>4 DEF TypeOK
<1>20. ASSUME NEW j \in JobIds, Recover(j) PROVE TypeOK'
  <2>1. AccountType'
    BY <1>0, <1>20, UnchangedTyped DEF Recover
  <2>2. RequestType'
    BY <1>0, <1>20, UnchangedTyped DEF Recover
  <2>3. ProcessType'
    BY <1>0, <1>20 DEF Recover, ProcessType, At, Handling
  <2> QED
    BY <2>1, <2>2, <2>3 DEF TypeOK
<1>21. ASSUME NEW c \in Calls, SendCash(c) PROVE TypeOK'
  <2>1. AccountType'
    BY <1>0, <1>21, UnchangedTyped DEF SendCash
  <2>2. RequestType'
    BY <1>0, <1>21, UnchangedTyped DEF SendCash
  <2>3. ProcessType'
    BY <1>0, <1>21 DEF SendCash, ProcessType, At, Handling
  <2> QED
    BY <2>1, <2>2, <2>3 DEF TypeOK
<1>22. ASSUME NEW c \in Calls, RailOutcome(c) PROVE TypeOK'
  <2>1. AccountType'
    BY <1>0, <1>22, UnchangedTyped DEF RailOutcome
  <2>2. RequestType'
    BY <1>0, <1>22, UnchangedTyped DEF RailOutcome
  <2>3. ProcessType'
    BY <1>0, <1>22 DEF RailOutcome, ProcessType, At, Handling
  <2> QED
    BY <2>1, <2>2, <2>3 DEF TypeOK
<1>23. ASSUME NEW o \in Operators, NEW c \in Calls, PaidRead(o, c)
       PROVE  TypeOK'
  <2>1. AccountType'
    BY <1>0, <1>23, UnchangedTyped DEF PaidRead
  <2>2. RequestType'
    BY <1>0, <1>23, UnchangedTyped DEF PaidRead
  <2>3. ProcessType'
    BY <1>0, <1>23, OperatorTyped DEF PaidRead, ProcessType, OperatorPCs
  <2> QED
    BY <2>1, <2>2, <2>3 DEF TypeOK
<1>24. ASSUME NEW o \in Operators, NEW c \in Calls, UnknownRead(o, c)
       PROVE  TypeOK'
  <2>1. AccountType'
    BY <1>0, <1>24, UnchangedTyped DEF UnknownRead
  <2>2. RequestType'
    BY <1>0, <1>24, UnchangedTyped DEF UnknownRead
  <2>3. ProcessType'
    BY <1>0, <1>24, OperatorTyped DEF UnknownRead, ProcessType, OperatorPCs
  <2> QED
    BY <2>1, <2>2, <2>3 DEF TypeOK
<1>25. ASSUME NEW o \in Operators, NEW c \in Calls, NotPaidRead(o, c)
       PROVE  TypeOK'
  <2>1. AccountType'
    BY <1>0, <1>25, UnchangedTyped DEF NotPaidRead
  <2>2. RequestType'
    BY <1>0, <1>25, UnchangedTyped DEF NotPaidRead
  <2>3. ProcessType'
    BY <1>0, <1>25, OperatorTyped DEF NotPaidRead, ProcessType, OperatorPCs
  <2> QED
    BY <2>1, <2>2, <2>3 DEF TypeOK
<1>26. ASSUME NEW o \in Operators, PaidMark(o) PROVE TypeOK'
  <2>1. AccountType'
    BY <1>0, <1>26, UnchangedTyped DEF PaidMark
  <2>2. RequestType'
    BY <1>0, <1>26, StateTyped DEF PaidMark, RecordTransition, PayoutState
  <2>3. ProcessType'
    BY <1>0, <1>26, OperatorTyped
       DEF PaidMark, Handling, ProcessType, OperatorPCs
  <2> QED
    BY <2>1, <2>2, <2>3 DEF TypeOK
<1>27. ASSUME NEW o \in Operators, PaidPost(o) PROVE TypeOK'
  <2>1. AccountType'
    BY <1>0, <1>27, UnchangedTyped DEF PaidPost
  <2>2. RequestType'
    BY <1>0, <1>27 DEF PaidPost, RequestType
  <2>3. ProcessType'
    BY <1>0, <1>27, OperatorTyped
       DEF PaidPost, Handling, ProcessType, OperatorPCs
  <2> QED
    BY <2>1, <2>2, <2>3 DEF TypeOK
<1>28. ASSUME NEW o \in Operators, CloseRead(o) PROVE TypeOK'
  <2>1. AccountType'
    BY <1>0, <1>28, UnchangedTyped DEF CloseRead
  <2>2. RequestType'
    BY <1>0, <1>28, UnchangedTyped DEF CloseRead
  <2>3. ProcessType'
    BY <1>0, <1>28, OperatorTyped
       DEF CloseRead, Handling, ProcessType, OperatorPCs
  <2> QED
    BY <2>1, <2>2, <2>3 DEF TypeOK
<1>29. ASSUME NEW o \in Operators, CloseWrite(o) PROVE TypeOK'
  <2>1. AccountType'
    BY <1>0, <1>29 DEF CloseWrite, AccountType, AccountRow
  <2>2. RequestType'
    BY <1>0, <1>29, UnchangedTyped DEF CloseWrite
  <2>3. ProcessType'
    BY <1>0, <1>29, OperatorTyped
       DEF CloseWrite, Handling, ProcessType, OperatorPCs
  <2> QED
    BY <2>1, <2>2, <2>3 DEF TypeOK
<1>30. ASSUME NEW o \in Operators, UnknownMark(o) PROVE TypeOK'
  <2>1. AccountType'
    BY <1>0, <1>30, UnchangedTyped DEF UnknownMark
  <2>2. RequestType'
    BY <1>0, <1>30, StateTyped DEF UnknownMark, PayoutState
  <2>3. ProcessType'
    BY <1>0, <1>30, OperatorTyped
       DEF UnknownMark, Handling, ProcessType, OperatorPCs
  <2> QED
    BY <2>1, <2>2, <2>3 DEF TypeOK
<1>31. ASSUME NEW o \in Operators, FailMark(o) PROVE TypeOK'
  <2>1. AccountType'
    BY <1>0, <1>31, UnchangedTyped DEF FailMark
  <2>2. RequestType'
    BY <1>0, <1>31, StateTyped DEF FailMark, RecordTransition, PayoutState
  <2>3. ProcessType'
    BY <1>0, <1>31, OperatorTyped
       DEF FailMark, Handling, ProcessType, OperatorPCs
  <2> QED
    BY <2>1, <2>2, <2>3 DEF TypeOK
<1>32. ASSUME NEW o \in Operators, FailCredit(o) PROVE TypeOK'
  <2>1. oper[o].call \in Calls
    BY <1>0, <1>32 DEF FailCredit, ProcessType, Handling
  <2>2. AccountType'
    BY <1>0, <1>32, <2>1, AppliedTyped, AmountTyped
       DEF FailCredit, AccountType
  <2>3. RequestType'
    BY <1>0, <1>32, UnchangedTyped DEF FailCredit
  <2>4. ProcessType'
    BY <1>0, <1>32, OperatorTyped
       DEF FailCredit, Handling, ProcessType, OperatorPCs
  <2> QED
    BY <2>1, <2>2, <2>3, <2>4 DEF TypeOK
<1>33. ASSUME NEW o \in Operators, FailLocal(o) PROVE TypeOK'
  <2>1. oper[o].call \in Calls
    BY <1>0, <1>33 DEF FailLocal, ProcessType, Handling
  <2>2. AccountType'
    <3> DEFINE g == gross[oper[o].call]
    <3>1. g \in Int
      BY <1>0, <2>1, AmountTyped
    <3> DEFINE b == acct.bal + g
               n == acct.wd - g
    <3>2. acct \in AccountRow /\ b \in Int /\ n \in Int
      BY <1>0, <3>1 DEF AccountType, AccountRow
    <3>4. acct' = [acct EXCEPT !.bal = b, !.wd = n]
      BY <1>33 DEF FailLocal
    <3> HIDE DEF b, n
    <3>3. acct' \in AccountRow
      BY <3>2, <3>4, AccountUpdate
    <3> QED
      BY <1>0, <1>33, <3>3 DEF FailLocal, AccountType
  <2>3. RequestType'
    BY <1>0, <1>33 DEF FailLocal, RequestType
  <2>4. ProcessType'
    BY <1>0, <1>33, OperatorTyped
       DEF FailLocal, Handling, ProcessType, OperatorPCs
  <2> QED
    BY <2>1, <2>2, <2>3, <2>4 DEF TypeOK
<1>34. ASSUME NEW o \in Operators, OperatorCrash(o) PROVE TypeOK'
  <2>1. AccountType'
    BY <1>0, <1>34, UnchangedTyped DEF OperatorCrash
  <2>2. RequestType'
    BY <1>0, <1>34, UnchangedTyped DEF OperatorCrash
  <2>3. ProcessType'
    <3>1. crashes' \in 0 .. MaxCrashes
      BY <1>0, <1>34, PayoutAssumption DEF OperatorCrash, ProcessType
    <3> QED
      BY <1>0, <1>34, <3>1, OperatorTyped DEF OperatorCrash, ProcessType
  <2> QED
    BY <2>1, <2>2, <2>3 DEF TypeOK
<1>35. ASSUME SyncFetch PROVE TypeOK'
  <2>1. AccountType'
    BY <1>0, <1>35, IdleTyped, RulesTyped
       DEF SyncFetch, AccountType, Poll, ProviderAccount
  <2>2. RequestType'
    BY <1>0, <1>35, UnchangedTyped DEF SyncFetch
  <2>3. ProcessType'
    BY <1>0, <1>35, UnchangedTyped DEF SyncFetch
  <2> QED
    BY <2>1, <2>2, <2>3 DEF TypeOK
<1>36. ASSUME SyncRead PROVE TypeOK'
  <2>1. AccountType'
    BY <1>0, <1>36, IdleTyped, RulesTyped
       DEF SyncRead, AccountType, Poll, AccountRow
  <2>2. RequestType'
    BY <1>0, <1>36, UnchangedTyped DEF SyncRead
  <2>3. ProcessType'
    BY <1>0, <1>36, UnchangedTyped DEF SyncRead
  <2> QED
    BY <2>1, <2>2, <2>3 DEF TypeOK
<1>37. ASSUME SyncWrite PROVE TypeOK'
  <2>1. AccountType'
    <3>1. /\ sync.bal \in Int /\ sync.seq \in Int
          /\ sync.flat \in BOOLEAN /\ sync.day \in Days
          /\ sync.row.high \in Int /\ sync.row.thr \in Int
          /\ sync.row.open \in Int /\ sync.row.wd \in Int
      BY <1>0 DEF AccountType, Poll
    <3>2. SyncOpen \in Int /\ SyncWithdrawn \in Int
      BY <3>1 DEF SyncOpen, SyncWithdrawn
    <3>6. SyncThreshold \in Int
      BY <3>1, RulesTyped DEF SyncThreshold
    <3>5. NextHighWater(sync.row.high, sync.bal) \in Int
      BY <3>1, RulesTyped
    <3>3. acct' \in AccountRow
      BY <1>0, <1>37, <3>1, <3>2, <3>5, <3>6
         DEF SyncWrite, AccountType, AccountRow
    <3>4. sync' \in Poll
      BY <1>0, <1>37, IdleTyped DEF SyncWrite, AccountType, Poll
    <3> QED
      BY <1>0, <1>37, <3>3, <3>4 DEF SyncWrite, AccountType
  <2>2. RequestType'
    BY <1>0, <1>37, UnchangedTyped DEF SyncWrite
  <2>3. ProcessType'
    BY <1>0, <1>37, UnchangedTyped DEF SyncWrite
  <2> QED
    BY <2>1, <2>2, <2>3 DEF TypeOK
<1>38. ASSUME EnforceDaily PROVE TypeOK'
  <2>1. AccountType'
    <3>1. sync.day \in Days
      BY <1>0 DEF AccountType, Poll
    <3>2. acct' \in AccountRow
      <4>1. acct \in AccountRow
        BY <1>0 DEF AccountType
      <4>2. CASE sync.day \in acct.paused
        <5>1. acct' = acct
          BY <1>38, <4>2 DEF EnforceDaily
        <5> QED
          BY <4>1, <5>1
      <4>3. CASE sync.day \notin acct.paused
        <5> DEFINE p == acct.paused \union {sync.day}
                   st == IF acct.status = "BREACHED" THEN acct.status
                         ELSE "DAILY_PAUSED"
        <5>1. p \in SUBSET Days
          BY <3>1, <4>1 DEF AccountRow
        <5>2. st \in {"ACTIVE", "DAILY_PAUSED", "BREACHED", "CLOSED"}
          OBVIOUS
        <5>3. acct' = [acct EXCEPT !.status = st, !.paused = p]
          BY <1>38, <4>3 DEF EnforceDaily
        <5> HIDE DEF p, st
        <5> QED
          BY <4>1, <5>1, <5>2, <5>3 DEF AccountRow
      <4> QED
        BY <4>2, <4>3
    <3>3. sync' \in Poll
      BY <1>0, <1>38, IdleTyped DEF EnforceDaily, AccountType, Poll
    <3> QED
      BY <1>0, <1>38, <3>2, <3>3, FlattenedTyped DEF EnforceDaily, AccountType
  <2>2. RequestType'
    BY <1>0, <1>38, UnchangedTyped DEF EnforceDaily
  <2>3. ProcessType'
    BY <1>0, <1>38, UnchangedTyped DEF EnforceDaily
  <2> QED
    BY <2>1, <2>2, <2>3 DEF TypeOK
<1>39. ASSUME EnforceTrailing PROVE TypeOK'
  <2>1. AccountType'
    <3>1. acct' \in AccountRow
      BY <1>0, <1>39 DEF EnforceTrailing, AccountType, AccountRow
    <3> QED
      BY <1>0, <1>39, <3>1, FlattenedTyped, IdleTyped
         DEF EnforceTrailing, AccountType
  <2>2. RequestType'
    BY <1>0, <1>39, UnchangedTyped DEF EnforceTrailing
  <2>3. ProcessType'
    BY <1>0, <1>39, UnchangedTyped DEF EnforceTrailing
  <2> QED
    BY <2>1, <2>2, <2>3 DEF TypeOK
<1>40. ASSUME GoStale PROVE TypeOK'
  <2>1. AccountType'
    BY <1>0, <1>40, IdleTyped, RulesTyped DEF GoStale, AccountType, AccountRow
  <2>2. RequestType'
    BY <1>0, <1>40, UnchangedTyped DEF GoStale
  <2>3. ProcessType'
    BY <1>0, <1>40, UnchangedTyped DEF GoStale
  <2> QED
    BY <2>1, <2>2, <2>3 DEF TypeOK
<1>41. ASSUME Trade PROVE TypeOK'
  <2>1. AccountType'
    <3>1. PICK m \in Moves, f \in BOOLEAN :
             prov' = [prov EXCEPT !.bal = @ + m, !.seq = @ + 1, !.flat = f]
      BY <1>41 DEF Trade
    <3>2. m \in Int
      BY PayoutAssumption
    <3> DEFINE b == prov.bal + m
               n == prov.seq + 1
    <3>5. prov \in ProviderAccount /\ b \in Int /\ n \in Int
      BY <1>0, <3>2 DEF AccountType, ProviderAccount
    <3>6. prov' = [prov EXCEPT !.bal = b, !.seq = n, !.flat = f]
      BY <3>1
    <3> HIDE DEF b, n
    <3>3. prov' \in ProviderAccount
      BY <3>5, <3>6, ProviderUpdate
    <3>4. trades' \in 0 .. MaxTrades
      BY <1>0, <1>41, PayoutAssumption DEF Trade, AccountType
    <3> QED
      BY <1>0, <1>41, <3>3, <3>4 DEF Trade, AccountType
  <2>2. RequestType'
    BY <1>0, <1>41, UnchangedTyped DEF Trade
  <2>3. ProcessType'
    BY <1>0, <1>41, UnchangedTyped DEF Trade
  <2> QED
    BY <2>1, <2>2, <2>3 DEF TypeOK
<1>42. ASSUME NewSession PROVE TypeOK'
  <2>1. AccountType'
    BY <1>0, <1>42, PayoutAssumption DEF NewSession, AccountType, Days
  <2>2. RequestType'
    BY <1>0, <1>42, UnchangedTyped DEF NewSession
  <2>3. ProcessType'
    BY <1>0, <1>42, UnchangedTyped DEF NewSession
  <2> QED
    BY <2>1, <2>2, <2>3 DEF TypeOK
<1>43. CASE UNCHANGED vars
  BY <1>0, <1>43, UnchangedTyped DEF vars, TypeOK
<1> QED
  BY <1>1, <1>2, <1>3, <1>4, <1>5, <1>6, <1>7, <1>8, <1>9, <1>10, <1>11,
     <1>12, <1>13, <1>14, <1>15, <1>16, <1>17, <1>18, <1>19, <1>20, <1>21,
     <1>22, <1>23, <1>24, <1>25, <1>26, <1>27, <1>28, <1>29, <1>30, <1>31,
     <1>32, <1>33, <1>34, <1>35, <1>36, <1>37, <1>38, <1>39, <1>40, <1>41,
     <1>42, <1>43
     DEF Next, WorkerStep, OperatorStep, SyncStep

\* Every reachable state of the saga is well formed.
THEOREM PayoutTyped == Spec => []TypeOK
BY InitTyped, NextTyped, PTL DEF Spec

-----------------------------------------------------------------------------
(* What the updates of the process records do to each process.             *)

LEMMA AdvanceEffect ==
    ASSUME ProcessType, NEW w \in Workers, NEW pc, Advance(w, pc)
    PROVE  /\ worker'[w].pc = pc
           /\ worker'[w].stage = worker[w].stage
           /\ worker'[w].call = worker[w].call
           /\ \A v \in Workers \ {w} : worker'[v] = worker[v]
BY DEF ProcessType, Worker, Advance

LEMMA IdleEffect ==
    ASSUME ProcessType, NEW w \in Workers,
           worker' = [worker EXCEPT ![w] = IdleWorker]
    PROVE  /\ worker'[w].pc = "idle"
           /\ \A v \in Workers \ {w} : worker'[v] = worker[v]
BY DEF ProcessType, IdleWorker

LEMMA OpAdvanceEffect ==
    ASSUME ProcessType, NEW o \in Operators, NEW pc, OpAdvance(o, pc)
    PROVE  /\ oper'[o].pc = pc
           /\ oper'[o].call = oper[o].call
           /\ \A p \in Operators \ {o} : oper'[p] = oper[p]
BY DEF ProcessType, Operator, OpAdvance

LEMMA OpIdleEffect ==
    ASSUME ProcessType, NEW o \in Operators,
           oper' = [oper EXCEPT ![o] = IdleOperator]
    PROVE  /\ oper'[o].pc = "idle"
           /\ \A p \in Operators \ {o} : oper'[p] = oper[p]
BY DEF ProcessType, IdleOperator

LEMMA BeginEffect ==
    ASSUME ProcessType, NEW o \in Operators, NEW pc, NEW c, Begin(o, c, pc)
    PROVE  /\ oper'[o].pc = pc
           /\ oper'[o].call = c
           /\ \A p \in Operators \ {o} : oper'[p] = oper[p]
BY DEF ProcessType, Begin

\* recordTransition changes the state of one request.
LEMMA StateEffect ==
    ASSUME RequestType, NEW c \in Calls, NEW s,
           state' = [state EXCEPT ![c] = s]
    PROVE  /\ state'[c] = s
           /\ \A k \in Calls \ {c} : state'[k] = state[k]
BY DEF RequestType

\* The provider remembers the key of an adjustment, and forgets none.
LEMMA AppliedEffect ==
    ASSUME AccountType, NEW key, NEW delta
    PROVE  Applied(key, delta).done = prov.done \union {key}
BY DEF AccountType, ProviderAccount, Applied

-----------------------------------------------------------------------------
(* What a busy worker relies on survives the steps of the others.          *)

\* A worker keeps what it relies on as long as its job, its request and the
\* submit job of its request are left alone.
LEMMA KeepBusy ==
    ASSUME NEW v \in Workers, BusyInv(v), worker'[v] = worker[v],
           LET k == worker[v].call IN
           /\ jobs'[<<worker[v].stage, k>>] = jobs[<<worker[v].stage, k>>]
           /\ \/ worker[v].pc \in CalmPCs
              \/ /\ state'[k] = state[k]
                 /\ jobs'[<<"submit", k>>] = jobs[<<"submit", k>>],
           ledger \subseteq ledger',
           prov.done \subseteq prov'.done
    PROVE  BusyInv(v)'
BY DEF BusyInv, WorkerPhase, CalmPCs, At

\* Of two workers on one request, at most one relies on its state.
LEMMA OneRelies ==
    ASSUME TypeOK, SafetyInv, NEW v \in Workers, NEW w \in Workers, v # w,
           ~At(v, "idle"), ~At(w, "idle"), worker[v].call = worker[w].call,
           worker[w].pc \notin CalmPCs
    PROVE  worker[v].pc \in CalmPCs
<1> DEFINE c == worker[w].call
<1>1. c \in Calls /\ worker[v] \in Worker /\ worker[w] \in Worker
  BY DEF TypeOK, ProcessType
<1>2. /\ BusyInv(v) /\ BusyInv(w)
      /\ worker[v].stage # worker[w].stage
  BY DEF SafetyInv, WorkerInv, ExclusiveInv
<1>3. /\ worker[v].stage \in {"validate", "submit"}
      /\ worker[w].stage \in {"validate", "submit"}
      /\ worker[v].pc \in ValidatePCs \union SubmitPCs \union {"finish"}
      /\ worker[w].pc \in ValidatePCs \union SubmitPCs \union {"finish"}
  BY <1>1 DEF Worker, WorkerPCs, Stages, ValidatePCs, SubmitPCs, At
<1>4. jobs[<<"submit", c>>] = "claimed"
  BY <1>2, <1>3 DEF BusyInv
<1>5. state[c] \notin {"reserved", "validating"}
  BY <1>1, <1>4 DEF SafetyInv, JobInv
<1>6. /\ worker[v].pc \notin ValidatePCs \ {"v_read"}
      /\ worker[w].pc \notin ValidatePCs \ {"v_read"}
  BY <1>2, <1>4, <1>5 DEF BusyInv, WorkerPhase, ValidatePCs, At
<1>7. worker[w].pc \in SubmitPCs
  BY <1>3, <1>6 DEF CalmPCs, ValidatePCs
<1>8. worker[v].stage = "validate"
  BY <1>2, <1>3, <1>7 DEF BusyInv
<1> QED
  BY <1>2, <1>3, <1>6, <1>8 DEF BusyInv, CalmPCs, SubmitPCs

\* A worker that relies on the state of its request may change it, and its
\* submit job, without disturbing the others.
LEMMA OthersKeepBusy ==
    ASSUME TypeOK, SafetyInv, NEW w \in Workers, ~At(w, "idle"),
           \A v \in Workers \ {w} : worker'[v] = worker[v],
           \A k \in Calls : \/ k = worker[w].call /\ worker[w].pc \notin CalmPCs
                            \/ /\ state'[k] = state[k]
                               /\ jobs'[<<"submit", k>>] = jobs[<<"submit", k>>],
           \A v \in Workers \ {w} : ~At(v, "idle") =>
              jobs'[<<worker[v].stage, worker[v].call>>]
                 = jobs[<<worker[v].stage, worker[v].call>>],
           ledger \subseteq ledger',
           prov.done \subseteq prov'.done
    PROVE  \A v \in Workers \ {w} : ~At(v, "idle")' => BusyInv(v)'
<1> SUFFICES ASSUME NEW v \in Workers \ {w}, ~At(v, "idle")'
             PROVE  BusyInv(v)'
  OBVIOUS
<1>1. worker'[v] = worker[v] /\ ~At(v, "idle")
  BY DEF At
<1>2. BusyInv(v) /\ worker[v].call \in Calls
  BY <1>1 DEF SafetyInv, WorkerInv, TypeOK, ProcessType
<1>3. worker[v].call = worker[w].call /\ worker[w].pc \notin CalmPCs
        => worker[v].pc \in CalmPCs
  BY <1>1, OneRelies
<1> QED
  BY <1>1, <1>2, <1>3, KeepBusy

\* The steps of everybody else only touch requests no worker relies on.
LEMMA AllKeepBusy ==
    ASSUME TypeOK, SafetyInv, UNCHANGED <<worker, jobs>>,
           \A k \in Calls : \/ state'[k] = state[k]
                            \/ state[k] \notin {"reserved", "validating", "approved"},
           ledger \subseteq ledger',
           prov.done \subseteq prov'.done
    PROVE  WorkerInv' /\ ExclusiveInv'
<1>1. ASSUME NEW v \in Workers, ~At(v, "idle")'
      PROVE  BusyInv(v)'
  <2>1. worker'[v] = worker[v] /\ ~At(v, "idle")
    BY <1>1 DEF At
  <2>2. BusyInv(v) /\ worker[v].call \in Calls /\ worker[v] \in Worker
    BY <2>1 DEF SafetyInv, WorkerInv, TypeOK, ProcessType
  <2>3. state[worker[v].call] \notin {"reserved", "validating", "approved"}
          => worker[v].pc \in CalmPCs
    BY <2>1, <2>2 DEF BusyInv, WorkerPhase, CalmPCs, At, Worker, WorkerPCs
  <2> QED
    BY <2>1, <2>2, <2>3, KeepBusy
<1>2. ExclusiveInv'
  BY DEF SafetyInv, ExclusiveInv, At
<1> QED
  BY <1>1, <1>2 DEF WorkerInv


\* What is known of the worker that takes a step.
LEMMA BusyFacts ==
    ASSUME TypeOK, SafetyInv, NEW w \in Workers, ~At(w, "idle")
    PROVE  /\ worker[w] \in Worker
           /\ worker[w].call \in Calls
           /\ <<worker[w].stage, worker[w].call>> \in JobIds
           /\ BusyInv(w)
BY DEF TypeOK, ProcessType, SafetyInv, WorkerInv, Worker, JobIds

\* A worker that keeps its job and knows what its next step relies on
\* preserves what is known of the workers.
LEMMA WorkerMoves ==
    ASSUME TypeOK, SafetyInv, NEW w \in Workers, ~At(w, "idle"),
           worker'[w].stage = worker[w].stage,
           worker'[w].call = worker[w].call,
           \A v \in Workers \ {w} : worker'[v] = worker[v],
           BusyInv(w)',
           \/ jobs' = jobs
           \/ /\ jobs[<<"submit", worker[w].call>>] = "none"
              /\ jobs' = [jobs EXCEPT ![<<"submit", worker[w].call>>] = "pending"],
           \A k \in Calls : \/ k = worker[w].call /\ worker[w].pc \notin CalmPCs
                            \/ /\ state'[k] = state[k]
                               /\ jobs'[<<"submit", k>>] = jobs[<<"submit", k>>],
           ledger \subseteq ledger',
           prov.done \subseteq prov'.done
    PROVE  WorkerInv' /\ ExclusiveInv'
<1>1. ASSUME NEW v \in Workers \ {w}, ~At(v, "idle")
      PROVE  jobs'[<<worker[v].stage, worker[v].call>>]
                = jobs[<<worker[v].stage, worker[v].call>>]
  <2>1. /\ <<worker[v].stage, worker[v].call>> \in JobIds
        /\ jobs[<<worker[v].stage, worker[v].call>>] = "claimed"
    BY <1>1, BusyFacts DEF BusyInv
  <2> QED
    BY <2>1 DEF TypeOK, ProcessType
<1>2. \A v \in Workers \ {w} : ~At(v, "idle")' => BusyInv(v)'
  BY <1>1, OthersKeepBusy
<1>3. WorkerInv'
  BY <1>2 DEF WorkerInv
<1>4. ExclusiveInv'
  BY DEF SafetyInv, ExclusiveInv, At
<1> QED
  BY <1>3, <1>4

\* What is known of the operators survives every step of the others that
\* moves a request no operator can be handling.
LEMMA OperatorsUndisturbed ==
    ASSUME TypeOK, SafetyInv, UNCHANGED <<oper, rail>>,
           \A k \in Calls :
              \/ state'[k] = state[k]
              \/ state[k] \in {NoRow, "reserved", "validating", "approved"}
    PROVE  OperatorInv'
<1> SUFFICES ASSUME NEW o \in Operators, ~Handling(o, "idle")'
             PROVE  OperatorPhase(o, oper[o].call)'
  BY DEF OperatorInv
<1>1. oper[o].call \in Calls /\ OperatorPhase(o, oper[o].call)
  BY DEF TypeOK, ProcessType, SafetyInv, OperatorInv, Handling
<1> QED
  BY <1>1 DEF OperatorPhase, Handling, NoRow

\* Steps that leave every record of the saga alone.
LEMMA CalmStepSafe ==
    ASSUME TypeOK, SafetyInv,
           UNCHANGED <<state, resv, jobs, worker, oper, rail, ledger>>,
           prov'.done = prov.done
    PROVE  SafetyInv'
<1>1. JobInv'
  BY DEF SafetyInv, JobInv
<1>2. WorkerInv' /\ ExclusiveInv'
  BY AllKeepBusy
<1>3. OperatorInv'
  BY OperatorsUndisturbed
<1>4. MoneyInv'
  BY DEF SafetyInv, MoneyInv, MoneyOf, CashMoving
<1> QED
  BY <1>1, <1>2, <1>3, <1>4 DEF SafetyInv

-----------------------------------------------------------------------------
(* The workers' steps.                                                     *)

\* Steps of a worker that only read.
LEMMA WorkerReadSafe ==
    ASSUME TypeOK, SafetyInv, NEW w \in Workers, ~At(w, "idle"),
           worker'[w].stage = worker[w].stage,
           worker'[w].call = worker[w].call,
           \A v \in Workers \ {w} : worker'[v] = worker[v],
           BusyInv(w)',
           UNCHANGED <<state, resv, jobs, oper, rail, ledger>>,
           prov'.done = prov.done
    PROVE  SafetyInv'
<1>1. JobInv'
  BY DEF SafetyInv, JobInv
<1>2. WorkerInv' /\ ExclusiveInv'
  BY WorkerMoves
<1>3. OperatorInv'
  BY OperatorsUndisturbed
<1>4. MoneyInv'
  BY DEF SafetyInv, MoneyInv, MoneyOf, CashMoving
<1> QED
  BY <1>1, <1>2, <1>3, <1>4 DEF SafetyInv

LEMMA V_ReadSafe ==
    ASSUME TypeOK, SafetyInv, NEW w \in Workers, V_Read(w)
    PROVE  SafetyInv'
<1>1. ~At(w, "idle") /\ worker[w].pc = "v_read"
  BY DEF V_Read, At
<1>2. /\ worker'[w].pc = IF state[worker[w].call] = "reserved"
                         THEN "v_mark" ELSE "finish"
      /\ worker'[w].stage = worker[w].stage
      /\ worker'[w].call = worker[w].call
      /\ \A v \in Workers \ {w} : worker'[v] = worker[v]
  BY AdvanceEffect DEF V_Read, TypeOK
<1>3. UNCHANGED <<state, resv, jobs, oper, rail, ledger, prov>>
  BY DEF V_Read, acctVars, reqVars
<1>4. BusyInv(w)'
  BY <1>1, <1>2, <1>3, BusyFacts
     DEF BusyInv, WorkerPhase, ValidatePCs, SubmitPCs, At
<1> QED
  BY <1>1, <1>2, <1>3, <1>4, WorkerReadSafe

LEMMA V_AccountSafe ==
    ASSUME TypeOK, SafetyInv, NEW w \in Workers, V_Account(w)
    PROVE  SafetyInv'
<1>1. ~At(w, "idle") /\ worker[w].pc = "v_account"
  BY DEF V_Account, At
<1>2. /\ worker'[w].pc = "v_decide"
      /\ worker'[w].stage = worker[w].stage
      /\ worker'[w].call = worker[w].call
      /\ \A v \in Workers \ {w} : worker'[v] = worker[v]
  BY DEF V_Account, TypeOK, ProcessType, Worker
<1>3. UNCHANGED <<state, resv, jobs, oper, rail, ledger, prov>>
  BY DEF V_Account, acctVars, reqVars
<1>4. BusyInv(w)'
  BY <1>1, <1>2, <1>3, BusyFacts
     DEF BusyInv, WorkerPhase, ValidatePCs, SubmitPCs, At
<1> QED
  BY <1>1, <1>2, <1>3, <1>4, WorkerReadSafe

LEMMA V_DecideSafe ==
    ASSUME TypeOK, SafetyInv, NEW w \in Workers, V_Decide(w)
    PROVE  SafetyInv'
<1>1. ~At(w, "idle") /\ worker[w].pc = "v_decide"
  BY DEF V_Decide, At
<1>2. /\ worker'[w].pc \in {"v_approve", "v_park"}
      /\ worker'[w].stage = worker[w].stage
      /\ worker'[w].call = worker[w].call
      /\ \A v \in Workers \ {w} : worker'[v] = worker[v]
  BY DEF V_Decide, TypeOK, ProcessType, Worker
<1>3. UNCHANGED <<state, resv, jobs, oper, rail, ledger, prov>>
  BY DEF V_Decide, acctVars, reqVars
<1>4. BusyInv(w)'
  BY <1>1, <1>2, <1>3, BusyFacts
     DEF BusyInv, WorkerPhase, ValidatePCs, SubmitPCs, At
<1> QED
  BY <1>1, <1>2, <1>3, <1>4, WorkerReadSafe

LEMMA S_ReadSafe ==
    ASSUME TypeOK, SafetyInv, NEW w \in Workers, S_Read(w)
    PROVE  SafetyInv'
<1>1. ~At(w, "idle") /\ worker[w].pc = "s_read"
  BY DEF S_Read, At
<1>2. /\ worker'[w].pc = IF state[worker[w].call] = "approved"
                         THEN "s_deduct" ELSE "finish"
      /\ worker'[w].stage = worker[w].stage
      /\ worker'[w].call = worker[w].call
      /\ \A v \in Workers \ {w} : worker'[v] = worker[v]
  BY AdvanceEffect DEF S_Read, TypeOK
<1>3. UNCHANGED <<state, resv, jobs, oper, rail, ledger, prov>>
  BY DEF S_Read, acctVars, reqVars
<1>4. BusyInv(w)'
  BY <1>1, <1>2, <1>3, BusyFacts
     DEF BusyInv, WorkerPhase, ValidatePCs, SubmitPCs, At
<1> QED
  BY <1>1, <1>2, <1>3, <1>4, WorkerReadSafe

LEMMA S_LocalSafe ==
    ASSUME TypeOK, SafetyInv, NEW w \in Workers, S_Local(w)
    PROVE  SafetyInv'
<1>1. ~At(w, "idle") /\ worker[w].pc = "s_local"
  BY DEF S_Local, At
<1>2. /\ worker'[w].pc = "finish"
      /\ worker'[w].stage = worker[w].stage
      /\ worker'[w].call = worker[w].call
      /\ \A v \in Workers \ {w} : worker'[v] = worker[v]
  BY AdvanceEffect DEF S_Local, TypeOK
<1>3. UNCHANGED <<state, resv, jobs, oper, rail, ledger, prov>>
  BY DEF S_Local, reqVars
<1>4. BusyInv(w)'
  BY <1>1, <1>2, <1>3, BusyFacts
     DEF BusyInv, WorkerPhase, ValidatePCs, SubmitPCs, At
<1> QED
  BY <1>1, <1>2, <1>3, <1>4, WorkerReadSafe

\* Steps of a worker that move its request to its next state.
LEMMA WorkerMarkSafe ==
    ASSUME TypeOK, SafetyInv, NEW w \in Workers,
           ~At(w, "idle"), worker[w].pc \notin CalmPCs,
           worker'[w].stage = worker[w].stage,
           worker'[w].call = worker[w].call,
           \A v \in Workers \ {w} : worker'[v] = worker[v],
           BusyInv(w)',
           NEW t, state' = [state EXCEPT ![worker[w].call] = t],
           <<state[worker[w].call], t>> \in
              {<<"reserved", "validating">>, <<"validating", "approved">>,
               <<"validating", "needs_reconciliation">>,
               <<"approved", "needs_reconciliation">>,
               <<"approved", "submitted">>},
           t = "submitted" => /\ <<"deduct", worker[w].call>> \in prov.done
                              /\ <<"accrue", worker[w].call>> \in ledger,
           UNCHANGED <<resv, jobs, oper, rail, ledger, prov>>
    PROVE  SafetyInv'
<1> DEFINE c == worker[w].call
           s == state[c]
<1>1. c \in Calls
  BY BusyFacts
<1>2. state'[c] = t /\ \A k \in Calls \ {c} : state'[k] = state[k]
  BY <1>1, StateEffect DEF TypeOK
<1>3. /\ s \in {"reserved", "validating", "approved"}
      /\ t \in {"validating", "approved", "needs_reconciliation", "submitted"}
      /\ t = "validating" => s = "reserved"
  OBVIOUS
<1>4. JobInv'
  BY <1>1, <1>2, <1>3 DEF SafetyInv, JobInv, NoRow
<1>5. WorkerInv' /\ ExclusiveInv'
  BY <1>1, <1>2, WorkerMoves
<1>6. OperatorInv'
  BY <1>2, <1>3, OperatorsUndisturbed
<1>7. MoneyInv'
  <2> SUFFICES ASSUME NEW k \in Calls PROVE MoneyOf(k)'
    BY DEF MoneyInv
  <2>1. MoneyOf(k)
    BY DEF SafetyInv, MoneyInv
  <2>2. CASE k # c
    BY <1>2, <2>1, <2>2 DEF MoneyOf, CashMoving
  <2>3. CASE k = c
    BY <1>1, <1>2, <1>3, <2>1, <2>3 DEF MoneyOf, CashMoving, Fresh, NoRow
  <2> QED
    BY <2>2, <2>3
<1> QED
  BY <1>4, <1>5, <1>6, <1>7 DEF SafetyInv


LEMMA V_MarkSafe ==
    ASSUME TypeOK, SafetyInv, NEW w \in Workers, V_Mark(w)
    PROVE  SafetyInv'
<1> DEFINE c == worker[w].call
<1>1. /\ ~At(w, "idle")
      /\ worker[w].pc = "v_mark"
      /\ worker[w].pc \notin CalmPCs
  BY DEF V_Mark, At, CalmPCs
<1>2. /\ worker'[w].pc = "v_account"
      /\ worker'[w].stage = worker[w].stage
      /\ worker'[w].call = c
      /\ \A v \in Workers \ {w} : worker'[v] = worker[v]
  BY AdvanceEffect DEF V_Mark, TypeOK
<1>3. /\ state' = [state EXCEPT ![c] = "validating"]
      /\ UNCHANGED <<resv, jobs, oper, rail, ledger, prov>>
  BY DEF V_Mark, RecordTransition, acctVars
<1>4. c \in Calls /\ BusyInv(w)
  BY <1>1, BusyFacts
<1>5. state'[c] = "validating"
  BY <1>3, <1>4, StateEffect DEF TypeOK
<1>6. state[c] = "reserved"
  BY <1>1, <1>4 DEF BusyInv, WorkerPhase, At
<1>7. BusyInv(w)'
  BY <1>1, <1>2, <1>3, <1>4, <1>5, <1>6
     DEF BusyInv, WorkerPhase, ValidatePCs, SubmitPCs, At
<1> QED
  BY <1>1, <1>2, <1>3, <1>6, <1>7, WorkerMarkSafe

LEMMA V_ParkSafe ==
    ASSUME TypeOK, SafetyInv, NEW w \in Workers, V_Park(w)
    PROVE  SafetyInv'
<1> DEFINE c == worker[w].call
<1>1. /\ ~At(w, "idle")
      /\ worker[w].pc = "v_park"
      /\ worker[w].pc \notin CalmPCs
  BY DEF V_Park, At, CalmPCs
<1>2. /\ worker'[w].pc = "finish"
      /\ worker'[w].stage = worker[w].stage
      /\ worker'[w].call = c
      /\ \A v \in Workers \ {w} : worker'[v] = worker[v]
  BY AdvanceEffect DEF V_Park, TypeOK
<1>3. /\ state' = [state EXCEPT ![c] = "needs_reconciliation"]
      /\ UNCHANGED <<resv, jobs, oper, rail, ledger, prov>>
  BY DEF V_Park, RecordTransition, acctVars
<1>4. c \in Calls /\ BusyInv(w)
  BY <1>1, BusyFacts
<1>5. state'[c] = "needs_reconciliation"
  BY <1>3, <1>4, StateEffect DEF TypeOK
<1>6. state[c] = "validating"
  BY <1>1, <1>4 DEF BusyInv, WorkerPhase, At
<1>7. BusyInv(w)'
  BY <1>1, <1>2, <1>3, <1>4, <1>5, <1>6
     DEF BusyInv, WorkerPhase, ValidatePCs, SubmitPCs, At
<1> QED
  BY <1>1, <1>2, <1>3, <1>6, <1>7, WorkerMarkSafe

LEMMA V_ApproveSafe ==
    ASSUME TypeOK, SafetyInv, NEW w \in Workers, V_Approve(w)
    PROVE  SafetyInv'
<1> DEFINE c == worker[w].call
<1>1. /\ ~At(w, "idle")
      /\ worker[w].pc = "v_approve"
      /\ worker[w].pc \notin CalmPCs
  BY DEF V_Approve, At, CalmPCs
<1>2. /\ worker'[w].pc = "v_accrue"
      /\ worker'[w].stage = worker[w].stage
      /\ worker'[w].call = c
      /\ \A v \in Workers \ {w} : worker'[v] = worker[v]
  BY AdvanceEffect DEF V_Approve, TypeOK
<1>3. /\ state' = [state EXCEPT ![c] = "approved"]
      /\ UNCHANGED <<resv, jobs, oper, rail, ledger, prov>>
  BY DEF V_Approve, RecordTransition, acctVars
<1>4. c \in Calls /\ BusyInv(w)
  BY <1>1, BusyFacts
<1>5. state'[c] = "approved"
  BY <1>3, <1>4, StateEffect DEF TypeOK
<1>6. state[c] = "validating"
  BY <1>1, <1>4 DEF BusyInv, WorkerPhase, At
<1>7. BusyInv(w)'
  BY <1>1, <1>2, <1>3, <1>4, <1>5, <1>6
     DEF BusyInv, WorkerPhase, ValidatePCs, SubmitPCs, At, JobInv, SafetyInv
<1> QED
  BY <1>1, <1>2, <1>3, <1>6, <1>7, WorkerMarkSafe

LEMMA S_ParkSafe ==
    ASSUME TypeOK, SafetyInv, NEW w \in Workers, S_Park(w)
    PROVE  SafetyInv'
<1> DEFINE c == worker[w].call
<1>1. /\ ~At(w, "idle")
      /\ worker[w].pc = "s_park"
      /\ worker[w].pc \notin CalmPCs
  BY DEF S_Park, At, CalmPCs
<1>2. /\ worker'[w].pc = "finish"
      /\ worker'[w].stage = worker[w].stage
      /\ worker'[w].call = c
      /\ \A v \in Workers \ {w} : worker'[v] = worker[v]
  BY AdvanceEffect DEF S_Park, TypeOK
<1>3. /\ state' = [state EXCEPT ![c] = "needs_reconciliation"]
      /\ UNCHANGED <<resv, jobs, oper, rail, ledger, prov>>
  BY DEF S_Park, RecordTransition, acctVars
<1>4. c \in Calls /\ BusyInv(w)
  BY <1>1, BusyFacts
<1>5. state'[c] = "needs_reconciliation"
  BY <1>3, <1>4, StateEffect DEF TypeOK
<1>6. state[c] = "approved"
  BY <1>1, <1>4 DEF BusyInv, WorkerPhase, At
<1>7. BusyInv(w)'
  BY <1>1, <1>2, <1>3, <1>4, <1>5, <1>6
     DEF BusyInv, WorkerPhase, ValidatePCs, SubmitPCs, At
<1> QED
  BY <1>1, <1>2, <1>3, <1>6, <1>7, WorkerMarkSafe

LEMMA S_MarkSafe ==
    ASSUME TypeOK, SafetyInv, NEW w \in Workers, S_Mark(w)
    PROVE  SafetyInv'
<1> DEFINE c == worker[w].call
<1>1. /\ ~At(w, "idle")
      /\ worker[w].pc = "s_mark"
      /\ worker[w].pc \notin CalmPCs
  BY DEF S_Mark, At, CalmPCs
<1>2. /\ worker'[w].pc = "s_local"
      /\ worker'[w].stage = worker[w].stage
      /\ worker'[w].call = c
      /\ \A v \in Workers \ {w} : worker'[v] = worker[v]
  BY AdvanceEffect DEF S_Mark, TypeOK
<1>3. /\ state' = [state EXCEPT ![c] = "submitted"]
      /\ UNCHANGED <<resv, jobs, oper, rail, ledger, prov>>
  BY DEF S_Mark, RecordTransition, acctVars
<1>4. c \in Calls /\ BusyInv(w)
  BY <1>1, BusyFacts
<1>5. state'[c] = "submitted"
  BY <1>3, <1>4, StateEffect DEF TypeOK
<1>6. state[c] = "approved"
  BY <1>1, <1>4 DEF BusyInv, WorkerPhase, At
<1>7. BusyInv(w)'
  BY <1>1, <1>2, <1>3, <1>4, <1>5, <1>6
     DEF BusyInv, WorkerPhase, ValidatePCs, SubmitPCs, At
<1>8. <<"deduct", c>> \in prov.done /\ <<"accrue", c>> \in ledger
  BY <1>1, <1>4 DEF BusyInv, WorkerPhase, SubmitPCs, At, SafetyInv, JobInv
<1> QED
  BY <1>1, <1>2, <1>3, <1>6, <1>7, <1>8, WorkerMarkSafe

LEMMA V_AccrueSafe ==
    ASSUME TypeOK, SafetyInv, NEW w \in Workers, V_Accrue(w)
    PROVE  SafetyInv'
<1> DEFINE c == worker[w].call
<1>1. ~At(w, "idle") /\ worker[w].pc = "v_accrue"
  BY DEF V_Accrue, At
<1>2. /\ worker'[w].pc = "v_enqueue"
      /\ worker'[w].stage = worker[w].stage
      /\ worker'[w].call = c
      /\ \A v \in Workers \ {w} : worker'[v] = worker[v]
  BY AdvanceEffect DEF V_Accrue, TypeOK
<1>3. /\ ledger' = ledger \union {<<"accrue", c>>}
      /\ UNCHANGED <<state, resv, jobs, oper, rail, prov>>
  BY DEF V_Accrue, acctVars, reqVars
<1>4. c \in Calls /\ BusyInv(w)
  BY <1>1, BusyFacts
<1>5. BusyInv(w)'
  BY <1>1, <1>2, <1>3, <1>4
     DEF BusyInv, WorkerPhase, ValidatePCs, SubmitPCs, At
<1>6. JobInv'
  BY <1>3 DEF SafetyInv, JobInv
<1>7. WorkerInv' /\ ExclusiveInv'
  BY <1>1, <1>2, <1>3, <1>5, WorkerMoves
<1>8. OperatorInv'
  BY <1>3, OperatorsUndisturbed
<1>9. MoneyInv'
  BY <1>3 DEF SafetyInv, MoneyInv, MoneyOf, CashMoving
<1> QED
  BY <1>6, <1>7, <1>8, <1>9 DEF SafetyInv

LEMMA V_EnqueueSafe ==
    ASSUME TypeOK, SafetyInv, NEW w \in Workers, V_Enqueue(w)
    PROVE  SafetyInv'
<1> DEFINE c == worker[w].call
           j == <<"submit", c>>
<1>1. /\ ~At(w, "idle")
      /\ worker[w].pc = "v_enqueue"
      /\ worker[w].pc \notin CalmPCs
  BY DEF V_Enqueue, At, CalmPCs
<1>2. /\ worker'[w].pc = "finish"
      /\ worker'[w].stage = worker[w].stage
      /\ worker'[w].call = c
      /\ \A v \in Workers \ {w} : worker'[v] = worker[v]
  BY AdvanceEffect DEF V_Enqueue, TypeOK
<1>3. UNCHANGED <<state, resv, oper, rail, ledger, prov>>
  BY DEF V_Enqueue, acctVars, reqVars
<1>4. c \in Calls /\ BusyInv(w) /\ j \in JobIds
  BY <1>1, BusyFacts DEF JobIds, Stages
<1>5. /\ state[c] = "approved" /\ <<"accrue", c>> \in ledger
      /\ jobs[j] = "none"
  BY <1>1, <1>4 DEF BusyInv, WorkerPhase, At
<1>6. jobs' = [jobs EXCEPT ![j] = "pending"]
  BY <1>4, <1>5 DEF V_Enqueue, TypeOK, ProcessType
<1>7. \A i \in JobIds : jobs'[i] = IF i = j THEN "pending" ELSE jobs[i]
  BY <1>4, <1>6 DEF TypeOK, ProcessType
<1>8. worker[w].stage = "validate" /\ <<"validate", c>> \in JobIds
  BY <1>1, <1>4 DEF BusyInv, ValidatePCs, JobIds, Stages
<1>9. BusyInv(w)'
  BY <1>1, <1>2, <1>3, <1>4, <1>7, <1>8
     DEF BusyInv, WorkerPhase, ValidatePCs, SubmitPCs, At
<1>10. JobInv'
  BY <1>3, <1>5, <1>7 DEF SafetyInv, JobInv, JobIds, Stages, NoRow
<1>11. \A k \in Calls \ {c} : jobs'[<<"submit", k>>] = jobs[<<"submit", k>>]
  BY <1>7 DEF JobIds, Stages
<1>12. WorkerInv' /\ ExclusiveInv'
  BY <1>1, <1>2, <1>3, <1>5, <1>6, <1>9, <1>11, WorkerMoves
<1>13. OperatorInv'
  BY <1>3, OperatorsUndisturbed
<1>14. MoneyInv'
  BY <1>3 DEF SafetyInv, MoneyInv, MoneyOf, CashMoving
<1> QED
  BY <1>10, <1>12, <1>13, <1>14 DEF SafetyInv

LEMMA S_DeductSafe ==
    ASSUME TypeOK, SafetyInv, NEW w \in Workers, S_Deduct(w)
    PROVE  SafetyInv'
<1> DEFINE c == worker[w].call
           key == <<"deduct", c>>
           after == Applied(key, -gross[c])
<1>1. /\ ~At(w, "idle")
      /\ worker[w].pc = "s_deduct"
      /\ worker[w].pc \notin CalmPCs
  BY DEF S_Deduct, At, CalmPCs
<1>2. after.done = prov.done \union {key}
  BY AppliedEffect DEF TypeOK
<1>3. UNCHANGED <<state, resv, jobs, oper, rail, ledger>>
  BY DEF S_Deduct, reqVars
<1>4. \/ Advance(w, "s_mark") /\ prov'.done = prov.done \union {key}
      \/ Advance(w, "s_park") /\ prov'.done = prov.done \union {key}
      \/ Advance(w, "s_park") /\ prov'.done = prov.done
  <2> HIDE DEF after
  <2>1. \/ prov' = after /\ Advance(w, "s_mark")
        \/ prov' \in {prov, after} /\ Advance(w, "s_park")
    BY DEF S_Deduct, after
  <2> QED
    BY <1>2, <2>1
<1>5. /\ prov.done \subseteq prov'.done
      /\ \A k : \A d \in {"reverse", "deduct"} :
            <<d, k>> \in prov'.done => <<d, k>> \in prov.done \/ <<d, k>> = key
  BY <1>4
<1>6. /\ \/ worker'[w].pc = "s_mark" /\ key \in prov'.done
         \/ worker'[w].pc = "s_park"
      /\ worker'[w].stage = worker[w].stage
      /\ worker'[w].call = c
      /\ \A v \in Workers \ {w} : worker'[v] = worker[v]
  BY <1>4, AdvanceEffect DEF TypeOK
<1>7. c \in Calls /\ BusyInv(w) /\ state[c] = "approved"
  BY <1>1, BusyFacts DEF BusyInv, WorkerPhase, At
<1>8. BusyInv(w)'
  BY <1>1, <1>3, <1>6, <1>7
     DEF BusyInv, WorkerPhase, ValidatePCs, SubmitPCs, At
<1>9. JobInv'
  BY <1>3, <1>5, <1>7 DEF SafetyInv, JobInv, NoRow
<1>10. WorkerInv' /\ ExclusiveInv'
  BY <1>1, <1>3, <1>5, <1>6, <1>8, WorkerMoves
<1>11. OperatorInv'
  BY <1>3, OperatorsUndisturbed
<1>12. MoneyInv'
  BY <1>3, <1>5 DEF SafetyInv, MoneyInv, MoneyOf, CashMoving
<1> QED
  BY <1>9, <1>10, <1>11, <1>12 DEF SafetyInv

-----------------------------------------------------------------------------
(* The job table.                                                          *)

\* A job that exists and changes its status disturbs no worker that runs
\* another job.
LEMMA JobTurns ==
    ASSUME TypeOK, NEW j \in JobIds, jobs[j] # "none",
           NEW x \in {"pending", "claimed", "done"},
           jobs' = [jobs EXCEPT ![j] = x],
           NEW v \in Workers, ~At(v, "idle"), BusyInv(v),
           worker'[v] = worker[v],
           <<worker[v].stage, worker[v].call>> # j,
           UNCHANGED <<state, ledger, prov>>
    PROVE  BusyInv(v)'
<1>1. /\ <<worker[v].stage, worker[v].call>> \in JobIds
      /\ <<"submit", worker[v].call>> \in JobIds
  BY DEF TypeOK, ProcessType, Worker, JobIds, Stages
<1>2. jobs'[<<worker[v].stage, worker[v].call>>] = "claimed"
  BY <1>1 DEF TypeOK, ProcessType, BusyInv
<1>3. jobs[<<"submit", worker[v].call>>] = "none"
        => jobs'[<<"submit", worker[v].call>>] = "none"
  BY <1>1 DEF TypeOK, ProcessType
<1> QED
  BY <1>2, <1>3 DEF BusyInv, WorkerPhase, At

\* Turning a job that exists leaves every other part of the invariant alone.
LEMMA JobTurnsSafe ==
    ASSUME TypeOK, SafetyInv, NEW j \in JobIds, jobs[j] # "none",
           NEW x \in {"pending", "claimed", "done"},
           jobs' = [jobs EXCEPT ![j] = x],
           UNCHANGED <<state, resv, oper, rail, ledger, prov>>,
           WorkerInv', ExclusiveInv'
    PROVE  SafetyInv'
<1>1. \A i \in JobIds : jobs[i] = "none" <=> jobs'[i] = "none"
  BY DEF TypeOK, ProcessType
<1>2. \A c \in Calls : /\ <<"validate", c>> \in JobIds
                        /\ <<"submit", c>> \in JobIds
  BY DEF JobIds, Stages
<1>3. JobInv'
  BY <1>1, <1>2 DEF SafetyInv, JobInv
<1>4. OperatorInv'
  BY OperatorsUndisturbed
<1>5. MoneyInv'
  BY DEF SafetyInv, MoneyInv, MoneyOf, CashMoving
<1> QED
  BY <1>3, <1>4, <1>5 DEF SafetyInv

LEMMA ClaimSafe ==
    ASSUME TypeOK, SafetyInv, NEW w \in Workers, Claim(w)
    PROVE  SafetyInv'
<1>1. PICK c \in Calls, s \in Stages :
         /\ jobs[<<s, c>>] = "pending"
         /\ jobs' = [jobs EXCEPT ![<<s, c>>] = "claimed"]
         /\ worker' = [worker EXCEPT ![w] =
               [pc |-> IF s = "validate" THEN "v_read" ELSE "s_read",
                stage |-> s, call |-> c, view |-> NoView]]
  BY DEF Claim
<1> DEFINE j == <<s, c>>
<1>2. /\ worker'[w].pc = IF s = "validate" THEN "v_read" ELSE "s_read"
      /\ worker'[w].stage = s
      /\ worker'[w].call = c
      /\ \A v \in Workers \ {w} : worker'[v] = worker[v]
  BY <1>1 DEF TypeOK, ProcessType
<1>3. UNCHANGED <<state, resv, oper, rail, ledger, prov>>
  BY DEF Claim, acctVars, reqVars
<1>4. j \in JobIds /\ jobs'[j] = "claimed"
  BY <1>1 DEF TypeOK, ProcessType, JobIds
<1>5. \A v \in Workers : ~At(v, "idle") =>
         <<worker[v].stage, worker[v].call>> # j
  BY <1>1, BusyFacts DEF BusyInv
<1>6. BusyInv(w)'
  BY <1>2, <1>4 DEF BusyInv, WorkerPhase, ValidatePCs, SubmitPCs, At, Stages
<1>7. ASSUME NEW v \in Workers \ {w}, ~At(v, "idle")'
      PROVE  BusyInv(v)'
  <2>1. worker'[v] = worker[v] /\ ~At(v, "idle")
    BY <1>2, <1>7 DEF At
  <2>2. BusyInv(v) /\ <<worker[v].stage, worker[v].call>> # j
    BY <1>5, <2>1, BusyFacts
  <2> QED
    BY <1>1, <1>3, <1>4, <2>1, <2>2, JobTurns
<1>8. WorkerInv'
  BY <1>6, <1>7 DEF WorkerInv
<1>9. ExclusiveInv'
  BY <1>2, <1>5 DEF SafetyInv, ExclusiveInv, At
<1> QED
  BY <1>1, <1>3, <1>4, <1>8, <1>9, JobTurnsSafe

LEMMA FinishSafe ==
    ASSUME TypeOK, SafetyInv, NEW w \in Workers, Finish(w)
    PROVE  SafetyInv'
<1> DEFINE j == <<worker[w].stage, worker[w].call>>
<1>1. ~At(w, "idle")
  BY DEF Finish, At
<1>2. /\ worker'[w].pc = "idle"
      /\ \A v \in Workers \ {w} : worker'[v] = worker[v]
  BY IdleEffect DEF Finish, TypeOK
<1>3. /\ jobs' = [jobs EXCEPT ![j] = "done"]
      /\ UNCHANGED <<state, resv, oper, rail, ledger, prov>>
  BY DEF Finish, acctVars, reqVars
<1>4. j \in JobIds /\ jobs[j] = "claimed"
  BY <1>1, BusyFacts DEF BusyInv
<1>5. ASSUME NEW v \in Workers, ~At(v, "idle")'
      PROVE  BusyInv(v)'
  <2>1. v # w /\ worker'[v] = worker[v] /\ ~At(v, "idle")
    BY <1>2, <1>5 DEF At
  <2>2. BusyInv(v) /\ <<worker[v].stage, worker[v].call>> # j
    BY <1>1, <2>1, BusyFacts DEF SafetyInv, ExclusiveInv
  <2> QED
    BY <1>3, <1>4, <2>1, <2>2, JobTurns
<1>6. WorkerInv'
  BY <1>5 DEF WorkerInv
<1>7. ExclusiveInv'
  BY <1>2 DEF SafetyInv, ExclusiveInv, At
<1> QED
  BY <1>3, <1>4, <1>6, <1>7, JobTurnsSafe

LEMMA WorkerCrashSafe ==
    ASSUME TypeOK, SafetyInv, NEW w \in Workers, WorkerCrash(w)
    PROVE  SafetyInv'
<1>1. /\ worker'[w].pc = "idle"
      /\ \A v \in Workers \ {w} : worker'[v] = worker[v]
  BY IdleEffect DEF WorkerCrash, TypeOK
<1>2. UNCHANGED <<state, resv, jobs, oper, rail, ledger, prov>>
  BY DEF WorkerCrash, acctVars, reqVars
<1>3. ASSUME NEW v \in Workers, ~At(v, "idle")'
      PROVE  BusyInv(v)'
  <2>1. worker'[v] = worker[v] /\ ~At(v, "idle")
    BY <1>1, <1>3 DEF At
  <2> QED
    BY <1>2, <2>1, BusyFacts, KeepBusy
<1>4. WorkerInv'
  BY <1>3 DEF WorkerInv
<1>5. ExclusiveInv'
  BY <1>1 DEF SafetyInv, ExclusiveInv, At
<1>6. JobInv'
  BY <1>2 DEF SafetyInv, JobInv
<1>7. OperatorInv'
  BY <1>2, OperatorsUndisturbed
<1>8. MoneyInv'
  BY <1>2 DEF SafetyInv, MoneyInv, MoneyOf, CashMoving
<1> QED
  BY <1>4, <1>5, <1>6, <1>7, <1>8 DEF SafetyInv

\* A claim is only taken away from a worker that is gone.
LEMMA RecoverSafe ==
    ASSUME ~SlowWorkers, TypeOK, SafetyInv, NEW j \in JobIds, Recover(j)
    PROVE  SafetyInv'
<1>1. /\ jobs[j] = "claimed"
      /\ jobs' = [jobs EXCEPT ![j] = "pending"]
      /\ UNCHANGED <<state, resv, worker, oper, rail, ledger, prov>>
  BY DEF Recover, acctVars, reqVars
<1>2. \A v \in Workers : ~At(v, "idle") =>
         <<worker[v].stage, worker[v].call>> # j
  BY DEF Recover, Holds
<1>3. ASSUME NEW v \in Workers, ~At(v, "idle")'
      PROVE  BusyInv(v)'
  <2>1. worker'[v] = worker[v] /\ ~At(v, "idle")
    BY <1>1, <1>3 DEF At
  <2>2. BusyInv(v) /\ <<worker[v].stage, worker[v].call>> # j
    BY <1>2, <2>1, BusyFacts
  <2> QED
    BY <1>1, <2>1, <2>2, JobTurns
<1>4. WorkerInv'
  BY <1>3 DEF WorkerInv
<1>5. ExclusiveInv'
  BY <1>1 DEF SafetyInv, ExclusiveInv, At
<1> QED
  BY <1>1, <1>4, <1>5, JobTurnsSafe

-----------------------------------------------------------------------------
(* Callers and the rail.                                                   *)

LEMMA RequestReserveSafe ==
    ASSUME TypeOK, SafetyInv, NEW c \in Calls, RequestReserve(c)
    PROVE  SafetyInv'
<1> DEFINE j == <<"validate", c>>
<1>1. UNCHANGED <<worker, oper, rail, ledger, prov>>
  BY DEF RequestReserve, acctVars
<1>2. CASE UNCHANGED <<state, resv, jobs>>
  BY <1>1, <1>2, CalmStepSafe
<1>3. CASE /\ ~KeyTaken(c)
           /\ state' = [state EXCEPT ![c] = "reserved"]
           /\ resv' = [resv EXCEPT ![c] = "ACTIVE"]
           /\ jobs' = [jobs EXCEPT ![j] = "pending"]
  <2>1. /\ state'[c] = "reserved" /\ resv'[c] = "ACTIVE"
        /\ \A k \in Calls \ {c} : state'[k] = state[k] /\ resv'[k] = resv[k]
    BY <1>3 DEF TypeOK, RequestType
  <2>2. /\ state[c] = NoRow
        /\ jobs[<<"validate", c>>] = "none" /\ jobs[<<"submit", c>>] = "none"
        /\ <<"deduct", c>> \notin prov.done
        /\ <<"reverse", c>> \notin prov.done
        /\ resv[c] = "NONE"
    BY <1>3 DEF KeyTaken, SafetyInv, JobInv
  <2>3. \A k \in Calls : /\ <<"validate", k>> \in JobIds
                         /\ <<"submit", k>> \in JobIds
    BY DEF JobIds, Stages
  <2>4. /\ \A k \in Calls : jobs'[<<"submit", k>>] = jobs[<<"submit", k>>]
        /\ \A k \in Calls \ {c} :
              jobs'[<<"validate", k>>] = jobs[<<"validate", k>>]
    BY <1>3, <2>3 DEF TypeOK, ProcessType
  <2>5. JobInv'
    BY <1>1, <2>1, <2>2, <2>4 DEF SafetyInv, JobInv, NoRow
  <2>6. ASSUME NEW v \in Workers, ~At(v, "idle")'
        PROVE  BusyInv(v)'
    <3>1. worker'[v] = worker[v] /\ ~At(v, "idle")
      BY <1>1, <2>6 DEF At
    <3>2. /\ BusyInv(v) /\ worker[v].call \in Calls
          /\ worker[v].stage \in {"validate", "submit"}
      BY <3>1, BusyFacts DEF Worker, Stages
    <3>3. worker[v].call # c
      BY <2>2, <3>2 DEF BusyInv
    <3> QED
      BY <1>1, <2>1, <2>4, <3>1, <3>2, <3>3, KeepBusy
  <2>7. WorkerInv'
    BY <2>6 DEF WorkerInv
  <2>8. ExclusiveInv'
    BY <1>1 DEF SafetyInv, ExclusiveInv, At
  <2>9. OperatorInv'
    BY <1>1, <2>1, <2>2, OperatorsUndisturbed
  <2>10. MoneyInv'
    <3> SUFFICES ASSUME NEW k \in Calls PROVE MoneyOf(k)'
      BY DEF MoneyInv
    <3>1. MoneyOf(k)
      BY DEF SafetyInv, MoneyInv
    <3>2. CASE k # c
      BY <1>1, <2>1, <3>1, <3>2 DEF MoneyOf, CashMoving
    <3>3. CASE k = c
      BY <1>1, <2>1, <2>2, <3>1, <3>3 DEF MoneyOf, CashMoving, Fresh, NoRow
    <3> QED
      BY <3>2, <3>3
  <2> QED
    BY <2>5, <2>7, <2>8, <2>9, <2>10 DEF SafetyInv
<1> QED
  BY <1>2, <1>3 DEF RequestReserve

LEMMA RailEffect ==
    ASSUME ProcessType, NEW c \in Calls, NEW r,
           rail' = [rail EXCEPT ![c] = r]
    PROVE  /\ rail'[c] = r
           /\ \A k \in Calls \ {c} : rail'[k] = rail[k]
BY DEF ProcessType

LEMMA SendCashSafe ==
    ASSUME TypeOK, SafetyInv, NEW c \in Calls, SendCash(c)
    PROVE  SafetyInv'
<1>1. /\ state[c] = "submitted" /\ rail[c] = "idle"
      /\ \A o \in Operators : oper[o].call # c
      /\ UNCHANGED <<state, resv, jobs, worker, oper, ledger, prov>>
  BY DEF SendCash, acctVars, reqVars
<1>2. /\ rail'[c] = "inflight"
      /\ \A k \in Calls \ {c} : rail'[k] = rail[k]
  BY RailEffect DEF SendCash, TypeOK
<1>3. JobInv'
  BY <1>1 DEF SafetyInv, JobInv
<1>4. WorkerInv' /\ ExclusiveInv'
  BY <1>1, AllKeepBusy
<1>5. OperatorInv'
  <2> SUFFICES ASSUME NEW o \in Operators, ~Handling(o, "idle")'
               PROVE  OperatorPhase(o, oper[o].call)'
    BY DEF OperatorInv
  <2>1. /\ oper[o].call \in Calls \ {c}
        /\ OperatorPhase(o, oper[o].call)
    BY <1>1 DEF TypeOK, ProcessType, SafetyInv, OperatorInv, Handling
  <2> QED
    BY <1>1, <1>2, <2>1 DEF OperatorPhase, Handling
<1>6. MoneyInv'
  <2> SUFFICES ASSUME NEW k \in Calls PROVE MoneyOf(k)'
    BY DEF MoneyInv
  <2>1. MoneyOf(k)
    BY DEF SafetyInv, MoneyInv
  <2>2. CASE k # c
    BY <1>1, <1>2, <2>1, <2>2 DEF MoneyOf, CashMoving
  <2>3. CASE k = c
    BY <1>1, <1>2, <2>1, <2>3 DEF MoneyOf, CashMoving, Fresh, NoRow
  <2> QED
    BY <2>2, <2>3
<1> QED
  BY <1>3, <1>4, <1>5, <1>6 DEF SafetyInv

LEMMA RailOutcomeSafe ==
    ASSUME TypeOK, SafetyInv, NEW c \in Calls, RailOutcome(c)
    PROVE  SafetyInv'
<1>1. /\ rail[c] = "inflight"
      /\ UNCHANGED <<state, resv, jobs, worker, oper, ledger, prov>>
  BY DEF RailOutcome, acctVars, reqVars
<1>2. PICK r \in {"sent", "bounced"} : rail' = [rail EXCEPT ![c] = r]
  BY DEF RailOutcome
<1>3. rail'[c] = r /\ \A k \in Calls \ {c} : rail'[k] = rail[k]
  BY <1>2, RailEffect DEF TypeOK
<1>4. JobInv'
  BY <1>1 DEF SafetyInv, JobInv
<1>5. WorkerInv' /\ ExclusiveInv'
  BY <1>1, AllKeepBusy
<1>6. OperatorInv'
  <2> SUFFICES ASSUME NEW o \in Operators, ~Handling(o, "idle")'
               PROVE  OperatorPhase(o, oper[o].call)'
    BY DEF OperatorInv
  <2>1. oper[o].call \in Calls /\ OperatorPhase(o, oper[o].call)
    BY <1>1 DEF TypeOK, ProcessType, SafetyInv, OperatorInv, Handling
  <2> QED
    BY <1>1, <1>3, <2>1 DEF OperatorPhase, Handling
<1>7. MoneyInv'
  <2> SUFFICES ASSUME NEW k \in Calls PROVE MoneyOf(k)'
    BY DEF MoneyInv
  <2>1. MoneyOf(k)
    BY DEF SafetyInv, MoneyInv
  <2>2. CASE k # c
    BY <1>1, <1>3, <2>1, <2>2 DEF MoneyOf, CashMoving
  <2>3. CASE k = c
    BY <1>1, <1>3, <2>1, <2>3 DEF MoneyOf, CashMoving
  <2> QED
    BY <2>2, <2>3
<1> QED
  BY <1>4, <1>5, <1>6, <1>7 DEF SafetyInv

-----------------------------------------------------------------------------
(* The operators' steps.                                                   *)

\* What is known of the operator that takes a step.
LEMMA HandlingFacts ==
    ASSUME TypeOK, SafetyInv, NEW o \in Operators, ~Handling(o, "idle")
    PROVE  oper[o].call \in Calls /\ OperatorPhase(o, oper[o].call)
BY DEF TypeOK, ProcessType, SafetyInv, OperatorInv

\* An operator may record what the rail says of a request, whatever the
\* others are recording of it.
LEMMA OperatorMoves ==
    ASSUME TypeOK, SafetyInv, NEW o \in Operators,
           \A p \in Operators \ {o} : oper'[p] = oper[p],
           ~Handling(o, "idle")' => OperatorPhase(o, oper[o].call)',
           rail' = rail,
           \A k \in Calls :
              \/ state'[k] = state[k]
              \/ state'[k] = "needs_reconciliation"
              \/ state'[k] = "paid" /\ rail[k] = "sent"
              \/ state'[k] = "failed" /\ rail[k] \in {"idle", "bounced"}
    PROVE  OperatorInv'
<1> SUFFICES ASSUME NEW p \in Operators \ {o}, ~Handling(p, "idle")'
             PROVE  OperatorPhase(p, oper[p].call)'
  BY DEF OperatorInv
<1>1. oper'[p] = oper[p] /\ ~Handling(p, "idle")
  BY DEF Handling
<1>2. oper[p].call \in Calls /\ OperatorPhase(p, oper[p].call)
  BY <1>1, HandlingFacts
<1> QED
  BY <1>1, <1>2 DEF OperatorPhase, Handling

\* Steps of an operator that only read, or stop.
LEMMA OperatorReadSafe ==
    ASSUME TypeOK, SafetyInv, NEW o \in Operators,
           \A p \in Operators \ {o} : oper'[p] = oper[p],
           ~Handling(o, "idle")' => OperatorPhase(o, oper[o].call)',
           UNCHANGED <<state, resv, jobs, worker, rail, ledger>>,
           prov'.done = prov.done
    PROVE  SafetyInv'
<1>1. JobInv'
  BY DEF SafetyInv, JobInv
<1>2. WorkerInv' /\ ExclusiveInv'
  BY AllKeepBusy
<1>3. OperatorInv'
  BY OperatorMoves
<1>4. MoneyInv'
  BY DEF SafetyInv, MoneyInv, MoneyOf, CashMoving
<1> QED
  BY <1>1, <1>2, <1>3, <1>4 DEF SafetyInv

LEMMA PaidReadSafe ==
    ASSUME TypeOK, SafetyInv, NEW o \in Operators, NEW c \in Calls,
           PaidRead(o, c)
    PROVE  SafetyInv'
<1>1. /\ rail[c] = "sent"
      /\ state[c] \in {"submitted", "needs_reconciliation"}
  BY DEF PaidRead, CanTransition, Transitions, TypeOK, RequestType,
         PayoutState, NoRow
<1>2. UNCHANGED <<state, resv, jobs, worker, rail, ledger, prov>>
  BY DEF PaidRead, acctVars, reqVars
<1>3. /\ oper'[o].pc = "paid_mark" /\ oper'[o].call = c
      /\ \A p \in Operators \ {o} : oper'[p] = oper[p]
  BY BeginEffect DEF PaidRead, TypeOK
<1>4. OperatorPhase(o, oper[o].call)'
  BY <1>1, <1>2, <1>3 DEF OperatorPhase, Handling
<1> QED
  BY <1>2, <1>3, <1>4, OperatorReadSafe

LEMMA UnknownReadSafe ==
    ASSUME TypeOK, SafetyInv, NEW o \in Operators, NEW c \in Calls,
           UnknownRead(o, c)
    PROVE  SafetyInv'
<1>1. /\ rail[c] # "idle"
  BY DEF UnknownRead
<1>2. UNCHANGED <<state, resv, jobs, worker, rail, ledger, prov>>
  BY DEF UnknownRead, acctVars, reqVars
<1>3. /\ oper'[o].pc = "unknown_mark" /\ oper'[o].call = c
      /\ \A p \in Operators \ {o} : oper'[p] = oper[p]
  BY BeginEffect DEF UnknownRead, TypeOK
<1>4. OperatorPhase(o, oper[o].call)'
  BY <1>1, <1>2, <1>3 DEF OperatorPhase, Handling
<1> QED
  BY <1>2, <1>3, <1>4, OperatorReadSafe

LEMMA NotPaidReadSafe ==
    ASSUME TypeOK, SafetyInv, NEW o \in Operators, NEW c \in Calls,
           NotPaidRead(o, c)
    PROVE  SafetyInv'
<1>1. /\ rail[c] \in {"idle", "bounced"}
      /\ state[c] \in {"submitted", "needs_reconciliation"}
  BY DEF NotPaidRead, CanTransition, Transitions, TypeOK, RequestType,
         PayoutState, NoRow
<1>2. UNCHANGED <<state, resv, jobs, worker, rail, ledger, prov>>
  BY DEF NotPaidRead, acctVars, reqVars
<1>3. /\ oper'[o].pc = "fail_mark" /\ oper'[o].call = c
      /\ \A p \in Operators \ {o} : oper'[p] = oper[p]
  BY BeginEffect DEF NotPaidRead, TypeOK
<1>4. OperatorPhase(o, oper[o].call)'
  BY <1>1, <1>2, <1>3 DEF OperatorPhase, Handling
<1> QED
  BY <1>2, <1>3, <1>4, OperatorReadSafe

LEMMA CloseReadSafe ==
    ASSUME TypeOK, SafetyInv, NEW o \in Operators, CloseRead(o)
    PROVE  SafetyInv'
<1>1. UNCHANGED <<state, resv, jobs, worker, rail, ledger, prov>>
  BY DEF CloseRead, acctVars, reqVars
<1>2. \/ OpAdvance(o, "close_write")
      \/ oper' = [oper EXCEPT ![o] = IdleOperator]
  BY DEF CloseRead
<1>3. /\ oper'[o].pc \in {"close_write", "idle"}
      /\ \A p \in Operators \ {o} : oper'[p] = oper[p]
  BY <1>2, OpAdvanceEffect, OpIdleEffect DEF TypeOK
<1>4. OperatorPhase(o, oper[o].call)'
  BY <1>3 DEF OperatorPhase, Handling
<1> QED
  BY <1>1, <1>3, <1>4, OperatorReadSafe

LEMMA CloseWriteSafe ==
    ASSUME TypeOK, SafetyInv, NEW o \in Operators, CloseWrite(o)
    PROVE  SafetyInv'
<1>1. UNCHANGED <<state, resv, jobs, worker, rail, ledger, prov>>
  BY DEF CloseWrite, reqVars
<1>2. /\ oper'[o].pc = "idle"
      /\ \A p \in Operators \ {o} : oper'[p] = oper[p]
  BY OpIdleEffect DEF CloseWrite, TypeOK
<1> QED
  BY <1>1, <1>2, OperatorReadSafe DEF Handling

LEMMA OperatorCrashSafe ==
    ASSUME TypeOK, SafetyInv, NEW o \in Operators, OperatorCrash(o)
    PROVE  SafetyInv'
<1>1. UNCHANGED <<state, resv, jobs, worker, rail, ledger, prov>>
  BY DEF OperatorCrash, acctVars, reqVars
<1>2. /\ oper'[o].pc = "idle"
      /\ \A p \in Operators \ {o} : oper'[p] = oper[p]
  BY OpIdleEffect DEF OperatorCrash, TypeOK
<1> QED
  BY <1>1, <1>2, OperatorReadSafe DEF Handling

\* Steps of an operator that record an outcome in the request.
LEMMA OperatorMarkSafe ==
    ASSUME TypeOK, SafetyInv, NEW o \in Operators, NEW c \in Calls,
           \A p \in Operators \ {o} : oper'[p] = oper[p],
           ~Handling(o, "idle")' => OperatorPhase(o, oper[o].call)',
           NEW t, state' = [state EXCEPT ![c] = t],
           state[c] \in {"submitted", "needs_reconciliation", "paid", "failed"},
           \/ t = "needs_reconciliation"
           \/ t = "paid" /\ rail[c] = "sent"
           \/ t = "failed" /\ rail[c] \in {"idle", "bounced"},
           UNCHANGED <<resv, jobs, worker, rail, ledger, prov>>
    PROVE  SafetyInv'
<1>1. state'[c] = t /\ \A k \in Calls \ {c} : state'[k] = state[k]
  BY StateEffect DEF TypeOK
<1>2. JobInv'
  BY <1>1 DEF SafetyInv, JobInv, NoRow
<1>3. WorkerInv' /\ ExclusiveInv'
  BY <1>1, AllKeepBusy
<1>4. OperatorInv'
  BY <1>1, OperatorMoves
<1>5. MoneyInv'
  <2> SUFFICES ASSUME NEW k \in Calls PROVE MoneyOf(k)'
    BY DEF MoneyInv
  <2>1. MoneyOf(k)
    BY DEF SafetyInv, MoneyInv
  <2>2. CASE k # c
    BY <1>1, <2>1, <2>2 DEF MoneyOf, CashMoving
  <2>3. CASE k = c
    BY <1>1, <2>1, <2>3 DEF MoneyOf, CashMoving, Fresh, NoRow
  <2> QED
    BY <2>2, <2>3
<1> QED
  BY <1>2, <1>3, <1>4, <1>5 DEF SafetyInv

LEMMA PaidMarkSafe ==
    ASSUME TypeOK, SafetyInv, NEW o \in Operators, PaidMark(o)
    PROVE  SafetyInv'
<1> DEFINE c == oper[o].call
<1>1. /\ c \in Calls
      /\ rail[c] = "sent"
      /\ state[c] \in {"submitted", "needs_reconciliation", "paid", "failed"}
  BY HandlingFacts
     DEF PaidMark, Handling, OperatorPhase, SafetyInv, MoneyInv, MoneyOf
<1>2. /\ state' = [state EXCEPT ![c] = "paid"]
      /\ UNCHANGED <<resv, jobs, worker, rail, ledger, prov>>
  BY DEF PaidMark, acctVars
<1>3. /\ oper'[o].pc = "paid_post" /\ oper'[o].call = c
      /\ \A p \in Operators \ {o} : oper'[p] = oper[p]
  BY OpAdvanceEffect DEF PaidMark, TypeOK
<1>4. state'[c] = "paid"
  BY <1>1, <1>2, StateEffect DEF TypeOK
<1>5. ~Handling(o, "idle")' => OperatorPhase(o, oper[o].call)'
  BY <1>1, <1>2, <1>3, <1>4 DEF OperatorPhase, Handling
<1> QED
  BY <1>1, <1>2, <1>3, <1>5, OperatorMarkSafe

LEMMA FailMarkSafe ==
    ASSUME TypeOK, SafetyInv, NEW o \in Operators, FailMark(o)
    PROVE  SafetyInv'
<1> DEFINE c == oper[o].call
<1>1. /\ c \in Calls
      /\ rail[c] \in {"idle", "bounced"}
      /\ state[c] \in {"submitted", "needs_reconciliation", "paid", "failed"}
  BY HandlingFacts
     DEF FailMark, Handling, OperatorPhase, SafetyInv, MoneyInv, MoneyOf
<1>2. /\ state' = [state EXCEPT ![c] = "failed"]
      /\ UNCHANGED <<resv, jobs, worker, rail, ledger, prov>>
  BY DEF FailMark, acctVars
<1>3. /\ oper'[o].pc = "fail_credit" /\ oper'[o].call = c
      /\ \A p \in Operators \ {o} : oper'[p] = oper[p]
  BY OpAdvanceEffect DEF FailMark, TypeOK
<1>4. state'[c] = "failed"
  BY <1>1, <1>2, StateEffect DEF TypeOK
<1>5. ~Handling(o, "idle")' => OperatorPhase(o, oper[o].call)'
  BY <1>1, <1>2, <1>3, <1>4 DEF OperatorPhase, Handling
<1> QED
  BY <1>1, <1>2, <1>3, <1>5, OperatorMarkSafe

LEMMA UnknownMarkSafe ==
    ASSUME TypeOK, SafetyInv, NEW o \in Operators, UnknownMark(o)
    PROVE  SafetyInv'
<1> DEFINE c == oper[o].call
<1>1. /\ c \in Calls
      /\ state[c] \in {"submitted", "needs_reconciliation", "paid", "failed"}
  BY HandlingFacts
     DEF UnknownMark, Handling, OperatorPhase, SafetyInv, MoneyInv, MoneyOf
<1>2. /\ state' = [state EXCEPT ![c] = "needs_reconciliation"]
      /\ UNCHANGED <<resv, jobs, worker, rail, ledger, prov>>
  BY DEF UnknownMark, acctVars
<1>3. /\ oper'[o].pc = "idle"
      /\ \A p \in Operators \ {o} : oper'[p] = oper[p]
  BY OpIdleEffect DEF UnknownMark, TypeOK
<1>4. state'[c] = "needs_reconciliation"
  BY <1>1, <1>2, StateEffect DEF TypeOK
<1>5. ~Handling(o, "idle")' => OperatorPhase(o, oper[o].call)'
  BY <1>1, <1>2, <1>3, <1>4 DEF OperatorPhase, Handling
<1> QED
  BY <1>1, <1>2, <1>3, <1>5, OperatorMarkSafe

LEMMA PaidPostSafe ==
    ASSUME TypeOK, SafetyInv, NEW o \in Operators, PaidPost(o)
    PROVE  SafetyInv'
<1> DEFINE c == oper[o].call
<1>1. /\ c \in Calls
      /\ rail[c] = "sent" /\ state[c] \in {"needs_reconciliation", "paid"}
  BY HandlingFacts DEF PaidPost, Handling, OperatorPhase
<1>2. /\ ledger' = ledger \union {<<k, c>> : k \in {"sim", "cash", "settle"}}
      /\ UNCHANGED <<state, jobs, worker, rail, prov>>
  BY DEF PaidPost, acctVars
<1>3. resv'[c] = "CONSUMED" /\ \A k \in Calls \ {c} : resv'[k] = resv[k]
  BY <1>1 DEF PaidPost, TypeOK, RequestType
<1>4. /\ oper'[o].pc = "close_read"
      /\ \A p \in Operators \ {o} : oper'[p] = oper[p]
  BY OpAdvanceEffect DEF PaidPost, TypeOK
<1>5. /\ ledger \subseteq ledger'
      /\ \A k : <<"accrue", k>> \in ledger' <=> <<"accrue", k>> \in ledger
      /\ \A k : k # c => (<<"cash", k>> \in ledger' <=> <<"cash", k>> \in ledger)
      /\ <<"settle", c>> \in ledger'
  BY <1>2
<1>6. JobInv'
  BY <1>1, <1>2, <1>3, <1>5 DEF SafetyInv, JobInv, NoRow
<1>7. WorkerInv' /\ ExclusiveInv'
  BY <1>2, <1>5, AllKeepBusy
<1>8. OperatorInv'
  BY <1>2, <1>4, OperatorMoves DEF OperatorPhase, Handling
<1>9. MoneyInv'
  <2> SUFFICES ASSUME NEW k \in Calls PROVE MoneyOf(k)'
    BY DEF MoneyInv
  <2>1. MoneyOf(k)
    BY DEF SafetyInv, MoneyInv
  <2>2. CASE k # c
    BY <1>2, <1>3, <1>5, <2>1, <2>2 DEF MoneyOf, CashMoving
  <2>3. CASE k = c
    BY <1>1, <1>2, <1>3, <1>5, <2>1, <2>3 DEF MoneyOf, CashMoving, Fresh
  <2> QED
    BY <2>2, <2>3
<1> QED
  BY <1>6, <1>7, <1>8, <1>9 DEF SafetyInv

LEMMA FailCreditSafe ==
    ASSUME TypeOK, SafetyInv, NEW o \in Operators, FailCredit(o)
    PROVE  SafetyInv'
<1> DEFINE c == oper[o].call
           key == <<"reverse", c>>
           after == Applied(key, gross[c])
<1>1. /\ c \in Calls
      /\ rail[c] \in {"idle", "bounced"}
      /\ state[c] \in {"needs_reconciliation", "failed"}
  BY HandlingFacts DEF FailCredit, Handling, OperatorPhase
<1>2. UNCHANGED <<state, resv, jobs, worker, rail, ledger>>
  BY DEF FailCredit, reqVars
<1>3. after.done = prov.done \union {key}
  BY AppliedEffect DEF TypeOK
<1>4. prov'.done \in {prov.done, prov.done \union {key}}
  <2> HIDE DEF after
  <2>1. prov' \in {prov, after}
    BY DEF FailCredit, after
  <2> QED
    BY <1>3, <2>1
<1>5. /\ prov.done \subseteq prov'.done
      /\ \A k : \A d \in {"reverse", "deduct"} :
            <<d, k>> \in prov'.done => <<d, k>> \in prov.done \/ <<d, k>> = key
  BY <1>4
<1>6. /\ oper'[o].pc = "fail_local" /\ oper'[o].call = c
      /\ \A p \in Operators \ {o} : oper'[p] = oper[p]
  BY OpAdvanceEffect DEF FailCredit, TypeOK
<1>7. JobInv'
  BY <1>1, <1>2, <1>5 DEF SafetyInv, JobInv, NoRow
<1>8. WorkerInv' /\ ExclusiveInv'
  BY <1>2, <1>5, AllKeepBusy
<1>9. OperatorInv'
  BY <1>1, <1>2, <1>6, OperatorMoves DEF OperatorPhase, Handling
<1>10. MoneyInv'
  <2> SUFFICES ASSUME NEW k \in Calls PROVE MoneyOf(k)'
    BY DEF MoneyInv
  <2>1. MoneyOf(k)
    BY DEF SafetyInv, MoneyInv
  <2>2. CASE k # c
    BY <1>2, <1>5, <2>1, <2>2 DEF MoneyOf, CashMoving
  <2>3. CASE k = c
    BY <1>1, <1>2, <1>5, <2>1, <2>3 DEF MoneyOf, CashMoving, Fresh
  <2> QED
    BY <2>2, <2>3
<1> QED
  BY <1>7, <1>8, <1>9, <1>10 DEF SafetyInv

LEMMA FailLocalSafe ==
    ASSUME TypeOK, SafetyInv, NEW o \in Operators, FailLocal(o)
    PROVE  SafetyInv'
<1> DEFINE c == oper[o].call
<1>1. /\ c \in Calls
      /\ rail[c] \in {"idle", "bounced"}
      /\ state[c] \in {"needs_reconciliation", "failed"}
  BY HandlingFacts DEF FailLocal, Handling, OperatorPhase
<1>2. UNCHANGED <<state, jobs, worker, rail, ledger, prov>>
  BY DEF FailLocal
<1>3. /\ resv'[c] \in {"RELEASED", resv[c]}
      /\ \A k \in Calls \ {c} : resv'[k] = resv[k]
  BY <1>1 DEF FailLocal, TypeOK, RequestType
<1>4. /\ oper'[o].pc = "idle"
      /\ \A p \in Operators \ {o} : oper'[p] = oper[p]
  BY OpIdleEffect DEF FailLocal, TypeOK
<1>5. JobInv'
  BY <1>1, <1>2, <1>3 DEF SafetyInv, JobInv, NoRow
<1>6. WorkerInv' /\ ExclusiveInv'
  BY <1>2, AllKeepBusy
<1>7. OperatorInv'
  BY <1>2, <1>4, OperatorMoves DEF Handling
<1>8. MoneyInv'
  <2> SUFFICES ASSUME NEW k \in Calls PROVE MoneyOf(k)'
    BY DEF MoneyInv
  <2>1. MoneyOf(k)
    BY DEF SafetyInv, MoneyInv
  <2>2. CASE k # c
    BY <1>2, <1>3, <2>1, <2>2 DEF MoneyOf, CashMoving
  <2>3. CASE k = c
    BY <1>1, <1>2, <1>3, <2>1, <2>3 DEF MoneyOf, CashMoving, Fresh, NoRow
  <2> QED
    BY <2>2, <2>3
<1> QED
  BY <1>5, <1>6, <1>7, <1>8 DEF SafetyInv

-----------------------------------------------------------------------------
(* The invariant.                                                          *)

LEMMA SafetyInit == Init => SafetyInv
<1> SUFFICES ASSUME Init PROVE SafetyInv
  OBVIOUS
<1>1. prov.done = {}
  BY DEF Init
<1>2. JobInv
  BY <1>1 DEF Init, JobInv, JobIds, Stages
<1>3. WorkerInv /\ ExclusiveInv
  BY DEF Init, WorkerInv, ExclusiveInv, IdleWorker, At
<1>4. OperatorInv
  BY DEF Init, OperatorInv, IdleOperator, Handling
<1>5. MoneyInv
  BY DEF Init, MoneyInv, MoneyOf, CashMoving, Fresh, NoRow
<1> QED
  BY <1>2, <1>3, <1>4, <1>5 DEF SafetyInv

\* Steps of callers, the poller and the environment that move the account only.
LEMMA AccountStepSafe ==
    ASSUME TypeOK, SafetyInv,
           \/ \E c \in Calls : RequestRead(c) \/ RequestValidate(c)
           \/ SyncFetch \/ SyncStep \/ GoStale \/ Trade \/ NewSession
    PROVE  SafetyInv'
<1>1. prov \in ProviderAccount
  BY DEF TypeOK, AccountType
<1>2. prov'.done = prov.done
  <2>1. ASSUME NEW c \in Calls, RequestRead(c) \/ RequestValidate(c)
        PROVE  prov' = prov
    BY <2>1 DEF RequestRead, RequestValidate, acctVars
  <2>2. SyncFetch \/ SyncRead \/ SyncWrite \/ GoStale \/ NewSession
          => prov' = prov
    BY DEF SyncFetch, SyncRead, SyncWrite, GoStale, NewSession
  <2>3. EnforceDaily \/ EnforceTrailing => prov' \in {prov, Flattened}
    BY DEF EnforceDaily, EnforceTrailing
  <2>4. Flattened.done = prov.done
    BY <1>1 DEF Flattened, ProviderAccount
  <2>5. Trade => prov'.done = prov.done
    BY <1>1 DEF Trade, ProviderAccount
  <2> QED
    BY <2>1, <2>2, <2>3, <2>4, <2>5 DEF SyncStep
<1>3. UNCHANGED <<state, resv, jobs, worker, oper, rail, ledger>>
  BY DEF RequestRead, RequestValidate, SyncFetch, SyncStep, SyncRead,
         SyncWrite, EnforceDaily, EnforceTrailing, GoStale, Trade, NewSession,
         reqVars, procVars
<1> QED
  BY <1>2, <1>3, CalmStepSafe

LEMMA WorkerStepSafe ==
    ASSUME TypeOK, SafetyInv, NEW w \in Workers, WorkerStep(w)
    PROVE  SafetyInv'
BY V_ReadSafe, V_MarkSafe, V_AccountSafe, V_DecideSafe, V_ParkSafe,
   V_ApproveSafe, V_AccrueSafe, V_EnqueueSafe, S_ReadSafe, S_DeductSafe,
   S_ParkSafe, S_MarkSafe, S_LocalSafe, FinishSafe
   DEF WorkerStep

LEMMA OperatorStepSafe ==
    ASSUME TypeOK, SafetyInv, NEW o \in Operators, OperatorStep(o)
    PROVE  SafetyInv'
BY PaidMarkSafe, PaidPostSafe, CloseReadSafe, CloseWriteSafe, UnknownMarkSafe,
   FailMarkSafe, FailCreditSafe, FailLocalSafe
   DEF OperatorStep

LEMMA SafetyNext ==
    ASSUME ~SlowWorkers, TypeOK, SafetyInv, [Next]_vars
    PROVE  SafetyInv'
<1>1. ASSUME NEW c \in Calls,
             RequestRead(c) \/ RequestValidate(c) \/ RequestReserve(c)
      PROVE  SafetyInv'
  BY <1>1, AccountStepSafe, RequestReserveSafe
<1>2. ASSUME NEW w \in Workers, Claim(w) \/ WorkerStep(w) \/ WorkerCrash(w)
      PROVE  SafetyInv'
  BY <1>2, ClaimSafe, WorkerStepSafe, WorkerCrashSafe
<1>3. ASSUME NEW j \in JobIds, Recover(j) PROVE SafetyInv'
  BY <1>3, RecoverSafe
<1>4. ASSUME NEW c \in Calls, SendCash(c) \/ RailOutcome(c) PROVE SafetyInv'
  BY <1>4, SendCashSafe, RailOutcomeSafe
<1>5. ASSUME NEW o \in Operators, NEW c \in Calls,
             PaidRead(o, c) \/ UnknownRead(o, c) \/ NotPaidRead(o, c)
      PROVE  SafetyInv'
  BY <1>5, PaidReadSafe, UnknownReadSafe, NotPaidReadSafe
<1>6. ASSUME NEW o \in Operators, OperatorStep(o) \/ OperatorCrash(o)
      PROVE  SafetyInv'
  BY <1>6, OperatorStepSafe, OperatorCrashSafe
<1>7. CASE SyncFetch \/ SyncStep \/ GoStale \/ Trade \/ NewSession
  BY <1>7, AccountStepSafe
<1>8. CASE UNCHANGED vars
  <2>1. UNCHANGED <<state, resv, jobs, worker, oper, rail, ledger, prov>>
    BY <1>8 DEF vars, acctVars, reqVars, procVars
  <2> QED
    BY <2>1, CalmStepSafe
<1> QED
  BY <1>1, <1>2, <1>3, <1>4, <1>5, <1>6, <1>7, <1>8 DEF Next

\* With workers that finish or die before their claim is recovered, the parts
\* of the invariant hold together, whatever else is interleaved or crashes.
THEOREM SafetyHolds ==
    ASSUME ~SlowWorkers PROVE Spec => []SafetyInv
<1>1. TypeOK /\ SafetyInv /\ [Next]_vars => SafetyInv'
  BY SafetyNext
<1> QED
  BY <1>1, SafetyInit, PayoutTyped, PTL DEF Spec

\* The cash of a request goes to the rail only after the provider has taken
\* the gross amount off the simulated account, and is not given back then.
THEOREM DeductionFirst ==
    ASSUME ~SlowWorkers PROVE Spec => []CashOnlyAfterDeduction
<1>1. SafetyInv => CashOnlyAfterDeduction
  BY DEF SafetyInv, MoneyInv, MoneyOf, CashOnlyAfterDeduction
<1> QED
  BY <1>1, SafetyHolds, PTL

\* Whatever crashes and however operators race, the cash ledger records a
\* payment only if the rail sent it, with its deduction, its settled
\* obligation and its consumed capacity.
THEOREM LedgerIsTruthful ==
    ASSUME ~SlowWorkers PROVE Spec => []BooksAreTruthful
<1>1. SafetyInv => BooksAreTruthful
  BY DEF SafetyInv, MoneyInv, MoneyOf, CashMoving, BooksAreTruthful
<1> QED
  BY <1>1, SafetyHolds, PTL

\* A request on its way to payment, or paid, holds its capacity: only a
\* confirmed non-payment gives it back.
THEOREM LiveRequestsHold ==
    ASSUME ~SlowWorkers PROVE Spec => []LiveRequestsHoldCapacity
<1>1. SafetyInv => LiveRequestsHoldCapacity
  BY DEF SafetyInv, MoneyInv, MoneyOf, CashMoving, Fresh, Held,
         LiveRequestsHoldCapacity
<1> QED
  BY <1>1, SafetyHolds, PTL

-----------------------------------------------------------------------------
(* Idempotency of requestPayout.                                           *)

\* A row only comes into being in requestPayout's transaction.
LEMMA RowsAreRequested ==
    ASSUME TypeOK, SafetyInv, [Next]_vars,
           NEW k \in Calls, state[k] = NoRow, ~RequestReserve(k)
    PROVE  state'[k] = NoRow
<1>1. ASSUME NEW c \in Calls,
             RequestRead(c) \/ RequestValidate(c) \/ RequestReserve(c)
      PROVE  state'[k] = NoRow
  <2>1. CASE RequestReserve(c)
    BY <2>1 DEF RequestReserve, TypeOK, RequestType
  <2>2. CASE RequestRead(c) \/ RequestValidate(c)
    BY <2>2 DEF RequestRead, RequestValidate
  <2> QED
    BY <1>1, <2>1, <2>2
<1>2. ASSUME NEW w \in Workers, Claim(w) \/ WorkerStep(w) \/ WorkerCrash(w)
      PROVE  state'[k] = NoRow
  <2>1. CASE V_Mark(w) \/ V_Park(w) \/ V_Approve(w) \/ S_Park(w) \/ S_Mark(w)
    <3>1. /\ ~At(w, "idle")
          /\ worker[w].pc \in {"v_mark", "v_park", "v_approve", "s_park",
                               "s_mark"}
      BY <2>1 DEF V_Mark, V_Park, V_Approve, S_Park, S_Mark, At
    <3>2. worker[w].call # k
      BY <3>1, BusyFacts DEF BusyInv, WorkerPhase, At, NoRow
    <3> QED
      BY <2>1, <3>2 DEF V_Mark, V_Park, V_Approve, S_Park, S_Mark,
                        RecordTransition, TypeOK, RequestType
  <2>2. CASE UNCHANGED state
    BY <2>2
  <2> QED
    BY <1>2, <2>1, <2>2
       DEF WorkerStep, Claim, WorkerCrash, V_Read, V_Account, V_Decide,
           V_Accrue, V_Enqueue, S_Read, S_Deduct, S_Local, Finish, reqVars
<1>3. ASSUME NEW j \in JobIds, Recover(j)
      PROVE  state'[k] = NoRow
  BY <1>3 DEF Recover, reqVars
<1>4. ASSUME NEW c \in Calls, SendCash(c) \/ RailOutcome(c)
      PROVE  state'[k] = NoRow
  BY <1>4 DEF SendCash, RailOutcome, reqVars
<1>5. ASSUME NEW o \in Operators, NEW c \in Calls,
             PaidRead(o, c) \/ UnknownRead(o, c) \/ NotPaidRead(o, c)
      PROVE  state'[k] = NoRow
  BY <1>5 DEF PaidRead, UnknownRead, NotPaidRead, reqVars
<1>6. ASSUME NEW o \in Operators, OperatorStep(o) \/ OperatorCrash(o)
      PROVE  state'[k] = NoRow
  <2>1. CASE PaidMark(o) \/ UnknownMark(o) \/ FailMark(o)
    <3>1. /\ ~Handling(o, "idle")
          /\ oper[o].pc \in {"paid_mark", "unknown_mark", "fail_mark"}
      BY <2>1 DEF PaidMark, UnknownMark, FailMark, Handling
    <3>2. oper[o].call # k
      BY <3>1, HandlingFacts
         DEF OperatorPhase, Handling, NoRow, SafetyInv, MoneyInv, MoneyOf
    <3> QED
      BY <2>1, <3>2 DEF PaidMark, UnknownMark, FailMark, RecordTransition,
                        TypeOK, RequestType
  <2>2. CASE UNCHANGED state
    BY <2>2
  <2> QED
    BY <1>6, <2>1, <2>2
       DEF OperatorStep, OperatorCrash, PaidPost, CloseRead, CloseWrite,
           FailCredit, FailLocal, reqVars
<1>7. CASE SyncFetch \/ SyncStep \/ GoStale \/ Trade \/ NewSession
  BY <1>7 DEF SyncFetch, SyncStep, SyncRead, SyncWrite, EnforceDaily,
              EnforceTrailing, GoStale, Trade, NewSession, reqVars
<1>8. CASE UNCHANGED vars
  BY <1>8 DEF vars, reqVars
<1> QED
  BY <1>1, <1>2, <1>3, <1>4, <1>5, <1>6, <1>7, <1>8 DEF Next

\* However many requestPayout calls carry one idempotency key and however
\* they overlap, at most one of them creates a request.
THEOREM RequestsAreIdempotent ==
    ASSUME ~SlowWorkers PROVE Spec => []OneRequestPerKey
<1>1. Init => OneRequestPerKey
  BY DEF Init, OneRequestPerKey
<1>2. TypeOK /\ SafetyInv /\ OneRequestPerKey /\ [Next]_vars
        => OneRequestPerKey'
  <2> SUFFICES ASSUME TypeOK, SafetyInv, OneRequestPerKey, [Next]_vars,
                      NEW a \in Calls, NEW b \in Calls,
                      state'[a] # NoRow, state'[b] # NoRow,
                      KeyOf[a] = KeyOf[b]
               PROVE  a = b
    BY DEF OneRequestPerKey
  <2>1. \A k \in Calls : state[k] = NoRow /\ state'[k] # NoRow
                            => RequestReserve(k) /\ ~KeyTaken(k)
    <3>1. ASSUME NEW k \in Calls, RequestReserve(k), KeyTaken(k)
          PROVE  state' = state
      BY <3>1 DEF RequestReserve
    <3> QED
      BY <3>1, RowsAreRequested
  <2>2. CASE state[a] # NoRow /\ state[b] # NoRow
    BY <2>2 DEF OneRequestPerKey
  <2>3. CASE state[a] = NoRow
    <3>1. RequestReserve(a) /\ ~KeyTaken(a)
      BY <2>1, <2>3
    <3>2. state[b] = NoRow
      BY <3>1 DEF KeyTaken
    <3>3. RequestReserve(b)
      BY <2>1, <3>2
    <3>4. call' = [call EXCEPT ![a].pc = "done"]
      BY <3>1 DEF RequestReserve
    <3>5. call' = [call EXCEPT ![b].pc = "done"] /\ call[b].pc = "reserve"
      BY <3>3 DEF RequestReserve
    <3> QED
      BY <3>4, <3>5 DEF TypeOK, RequestType, Call
  <2>4. CASE state[b] = NoRow
    <3>1. RequestReserve(b) /\ ~KeyTaken(b)
      BY <2>1, <2>4
    <3>2. state[a] = NoRow
      BY <3>1 DEF KeyTaken
    <3>3. RequestReserve(a)
      BY <2>1, <3>2
    <3>4. call' = [call EXCEPT ![b].pc = "done"]
      BY <3>1 DEF RequestReserve
    <3>5. call' = [call EXCEPT ![a].pc = "done"] /\ call[a].pc = "reserve"
      BY <3>3 DEF RequestReserve
    <3> QED
      BY <3>4, <3>5 DEF TypeOK, RequestType, Call
  <2> QED
    BY <2>2, <2>3, <2>4
<1> QED
  BY <1>1, <1>2, PayoutTyped, SafetyHolds, PTL DEF Spec

-----------------------------------------------------------------------------
(* The edges of the state machine.                                         *)

\* The states from which an operator may record an outcome.
Unsettled == {"submitted", "needs_reconciliation"}

LEMMA OutcomeEdges ==
    \A s \in PayoutState \union {NoRow} :
       /\ CanTransition(s, "paid") => s \in Unsettled
       /\ CanTransition(s, "failed") => s \in Unsettled
       /\ s \in Unsettled => CanTransition(s, "paid") /\ CanTransition(s, "failed")
BY DEF CanTransition, Transitions, PayoutState, NoRow, Unsettled

\* What a worker does to a row.
WorkerEdges == {<<"reserved", "validating">>, <<"validating", "approved">>,
                <<"validating", "needs_reconciliation">>,
                <<"approved", "needs_reconciliation">>,
                <<"approved", "submitted">>}

LEMMA WorkerEdgesLegal == \A e \in WorkerEdges : CanTransition(e[1], e[2])
BY DEF WorkerEdges, CanTransition, Transitions

\* A worker moves its request along an edge of the table, and no other.
LEMMA WorkerMovesRow ==
    ASSUME TypeOK, SafetyInv, NEW w \in Workers, NEW k \in Calls,
           Claim(w) \/ WorkerStep(w) \/ WorkerCrash(w)
    PROVE  state'[k] = state[k] \/ <<state[k], state'[k]>> \in WorkerEdges
<1>1. CASE V_Mark(w) \/ V_Park(w) \/ V_Approve(w) \/ S_Park(w) \/ S_Mark(w)
  <2> DEFINE c == worker[w].call
  <2>1. ~At(w, "idle")
    BY <1>1 DEF V_Mark, V_Park, V_Approve, S_Park, S_Mark, At
  <2>2. c \in Calls /\ WorkerPhase(w, c)
    BY <2>1, BusyFacts DEF BusyInv
  <2>3. \E t : state' = [state EXCEPT ![c] = t] /\ <<state[c], t>> \in WorkerEdges
    BY <1>1, <2>2 DEF V_Mark, V_Park, V_Approve, S_Park, S_Mark,
                      RecordTransition, WorkerPhase, At, WorkerEdges
  <2> QED
    BY <2>2, <2>3 DEF TypeOK, RequestType
<1>2. CASE UNCHANGED state
  BY <1>2
<1> QED
  BY <1>1, <1>2
     DEF WorkerStep, Claim, WorkerCrash, V_Read, V_Account, V_Decide,
         V_Accrue, V_Enqueue, S_Read, S_Deduct, S_Local, Finish, reqVars

\* What an operator is about to record is still a legal outcome.
SettlingInv ==
    \A o \in Operators :
        /\ oper[o].pc \in {"paid_mark", "fail_mark"}
              => state[oper[o].call] \in Unsettled
        /\ Handling(o, "unknown_mark") => state[oper[o].call] = "submitted"

\* A step of an operator that records an outcome.
Records(o) == PaidMark(o) \/ UnknownMark(o) \/ FailMark(o)

LEMMA RecordsLegal ==
    ASSUME TypeOK, SafetyInv, SettlingInv, NEW o \in Operators, Records(o),
           NEW k \in Calls, state'[k] # state[k]
    PROVE  CanTransition(state[k], state'[k])
<1>1. /\ ~Handling(o, "idle")
      /\ oper[o].pc \in {"paid_mark", "unknown_mark", "fail_mark"}
  BY DEF Records, PaidMark, UnknownMark, FailMark, Handling
<1>2. oper[o].call = k
  BY DEF Records, PaidMark, UnknownMark, FailMark, TypeOK, RequestType
<1>3. state[k] \in PayoutState \union {NoRow}
  BY DEF TypeOK, RequestType
<1>4. CASE UnknownMark(o)
  <2>1. state[k] = "submitted" /\ state'[k] = "needs_reconciliation"
    BY <1>2, <1>4 DEF UnknownMark, SettlingInv, TypeOK, RequestType
  <2> QED
    BY <2>1 DEF CanTransition, Transitions
<1>5. CASE PaidMark(o) \/ FailMark(o)
  <2>1. state[k] \in Unsettled /\ state'[k] \in {"paid", "failed"}
    BY <1>2, <1>5
       DEF PaidMark, FailMark, Handling, SettlingInv, TypeOK, RequestType
  <2> QED
    BY <1>3, <2>1, OutcomeEdges
<1> QED
  BY <1>4, <1>5 DEF Records

\* Any other step leaves a row alone, or moves it along an edge that starts
\* before the payment was submitted.
LEMMA OtherStepsLegal ==
    ASSUME TypeOK, SafetyInv, [Next]_vars, NEW k \in Calls,
           \A o \in Operators : ~Records(o)
    PROVE  \/ state'[k] = state[k]
           \/ state[k] = NoRow /\ state'[k] = "reserved"
           \/ <<state[k], state'[k]>> \in WorkerEdges
<1>1. ASSUME NEW c \in Calls,
             RequestRead(c) \/ RequestValidate(c) \/ RequestReserve(c)
      PROVE  \/ state'[k] = state[k]
             \/ state[k] = NoRow /\ state'[k] = "reserved"
  <2>1. CASE RequestReserve(c) /\ k = c
    <3>1. \/ state' = state
          \/ state' = [state EXCEPT ![k] = "reserved"] /\ ~KeyTaken(k)
      BY <2>1 DEF RequestReserve
    <3>2. ~KeyTaken(k) => state[k] = NoRow
      BY DEF KeyTaken
    <3> QED
      BY <3>1, <3>2 DEF TypeOK, RequestType
  <2>2. CASE RequestReserve(c) /\ k # c
    BY <2>2 DEF RequestReserve, TypeOK, RequestType
  <2>3. CASE RequestRead(c) \/ RequestValidate(c)
    BY <2>3 DEF RequestRead, RequestValidate
  <2> QED
    BY <1>1, <2>1, <2>2, <2>3
<1>2. ASSUME NEW w \in Workers, Claim(w) \/ WorkerStep(w) \/ WorkerCrash(w)
      PROVE  state'[k] = state[k] \/ <<state[k], state'[k]>> \in WorkerEdges
  BY <1>2, WorkerMovesRow
<1>3. ASSUME \/ \E j \in JobIds : Recover(j)
             \/ \E c \in Calls : SendCash(c) \/ RailOutcome(c)
             \/ \E o \in Operators, c \in Calls :
                   PaidRead(o, c) \/ UnknownRead(o, c) \/ NotPaidRead(o, c)
      PROVE  state'[k] = state[k]
  BY <1>3 DEF Recover, SendCash, RailOutcome, PaidRead, UnknownRead,
              NotPaidRead, reqVars
<1>4. ASSUME NEW o \in Operators, OperatorStep(o) \/ OperatorCrash(o)
      PROVE  state'[k] = state[k]
  BY <1>4 DEF OperatorStep, Records, OperatorCrash, PaidPost, CloseRead,
              CloseWrite, FailCredit, FailLocal, reqVars
<1>5. CASE SyncFetch \/ SyncStep \/ GoStale \/ Trade \/ NewSession
  BY <1>5 DEF SyncFetch, SyncStep, SyncRead, SyncWrite, EnforceDaily,
              EnforceTrailing, GoStale, Trade, NewSession, reqVars
<1>6. CASE UNCHANGED vars
  BY <1>6 DEF vars, reqVars
<1> QED
  BY <1>1, <1>2, <1>3, <1>4, <1>5, <1>6 DEF Next

\* A step that gives an operator something new to record is its read.
LEMMA OperatorReads ==
    ASSUME TypeOK, [Next]_vars, NEW o \in Operators, oper'[o] # oper[o],
           oper'[o].pc \in {"paid_mark", "unknown_mark", "fail_mark"}
    PROVE  \E c \in Calls :
              PaidRead(o, c) \/ UnknownRead(o, c) \/ NotPaidRead(o, c)
<1>1. ASSUME NEW p \in Operators, NEW c \in Calls,
             PaidRead(p, c) \/ UnknownRead(p, c) \/ NotPaidRead(p, c), p # o
      PROVE  FALSE
  BY <1>1 DEF PaidRead, UnknownRead, NotPaidRead, Begin, TypeOK, ProcessType
<1>2. ASSUME NEW p \in Operators, OperatorStep(p) \/ OperatorCrash(p)
      PROVE  FALSE
  <2>1. oper \in [Operators -> Operator]
    BY DEF TypeOK, ProcessType
  <2>2. \/ oper' = [oper EXCEPT ![p] = IdleOperator]
        \/ \E pc \in {"paid_post", "close_read", "close_write", "fail_credit",
                      "fail_local"} : OpAdvance(p, pc)
    BY <1>2 DEF OperatorStep, PaidMark, UnknownMark, FailMark, OperatorCrash,
                PaidPost, CloseRead, CloseWrite, FailCredit, FailLocal
  <2> QED
    BY <2>1, <2>2 DEF OpAdvance, IdleOperator, Operator
<1>3. ASSUME \/ \E c \in Calls :
                   \/ RequestRead(c) \/ RequestValidate(c) \/ RequestReserve(c)
                   \/ SendCash(c) \/ RailOutcome(c)
             \/ \E w \in Workers : Claim(w) \/ WorkerStep(w) \/ WorkerCrash(w)
             \/ \E j \in JobIds : Recover(j)
             \/ SyncFetch \/ SyncStep \/ GoStale \/ Trade \/ NewSession
             \/ UNCHANGED vars
      PROVE  oper' = oper
  BY <1>3 DEF RequestRead, RequestValidate, RequestReserve, SendCash,
     RailOutcome, Claim, WorkerCrash, WorkerStep, V_Read, V_Mark, V_Account,
     V_Decide, V_Park, V_Approve, V_Accrue, V_Enqueue, S_Read, S_Deduct,
     S_Park, S_Mark, S_Local, Finish, Recover, SyncFetch, SyncStep, SyncRead,
     SyncWrite, EnforceDaily, EnforceTrailing, GoStale, Trade, NewSession,
     vars, procVars
<1> QED
  BY <1>1, <1>2, <1>3 DEF Next

LEMMA SettlingStep ==
    ASSUME TypeOK, SafetyInv, SettlingInv, [Next]_vars,
           \A o, p \in Operators : o = p
    PROVE  SettlingInv'
<1> SUFFICES ASSUME NEW o \in Operators,
                    oper'[o].pc \in {"paid_mark", "unknown_mark", "fail_mark"}
             PROVE  /\ oper'[o].pc \in {"paid_mark", "fail_mark"}
                          => state'[oper'[o].call] \in Unsettled
                    /\ oper'[o].pc = "unknown_mark"
                          => state'[oper'[o].call] = "submitted"
  BY DEF SettlingInv, Handling
<1>1. CASE oper'[o] # oper[o]
  <2>1. PICK c \in Calls :
           PaidRead(o, c) \/ UnknownRead(o, c) \/ NotPaidRead(o, c)
    BY <1>1, OperatorReads
  <2>2. /\ state' = state /\ oper'[o].call = c
        /\ state[c] \in PayoutState \union {NoRow}
    BY <2>1 DEF PaidRead, UnknownRead, NotPaidRead, Begin, reqVars, TypeOK,
                RequestType, ProcessType
  <2>3. \/ CanTransition(state[c], "paid") /\ oper'[o].pc = "paid_mark"
        \/ CanTransition(state[c], "failed") /\ oper'[o].pc = "fail_mark"
        \/ state[c] = "submitted" /\ oper'[o].pc = "unknown_mark"
    BY <2>1 DEF PaidRead, UnknownRead, NotPaidRead, Begin, TypeOK, ProcessType
  <2> QED
    BY <2>2, <2>3, OutcomeEdges
<1>2. CASE oper'[o] = oper[o]
  <2> DEFINE c == oper[o].call
  <2>1. c \in Calls /\ state[c] \in Unsettled
    BY <1>2, HandlingFacts DEF Handling, SettlingInv, Unsettled
  <2>2. \A p \in Operators : ~Records(p)
    <3>1. ASSUME Records(o) PROVE oper'[o].pc # oper[o].pc
      <4>1. CASE PaidMark(o) \/ FailMark(o)
        BY <4>1, OpAdvanceEffect DEF PaidMark, FailMark, Handling, TypeOK
      <4>2. CASE UnknownMark(o)
        BY <4>2, OpIdleEffect DEF UnknownMark, Handling, TypeOK
      <4> QED
        BY <3>1, <4>1, <4>2 DEF Records
    <3> QED
      BY <1>2, <3>1
  <2>3. state'[c] = state[c]
    BY <2>1, <2>2, OtherStepsLegal DEF Unsettled, WorkerEdges, NoRow
  <2> QED
    BY <1>2, <2>3 DEF SettlingInv, Handling
<1> QED
  BY <1>1, <1>2

\* With one operator at a time, every change of a request's row is an edge of
\* the table, read and written apart as they are: a settled request stays
\* settled (TRANSITIONS of state-machine.ts, recordTransition).
THEOREM EdgesAreLegal ==
    ASSUME ~SlowWorkers, \A o, p \in Operators : o = p
    PROVE  Spec => LegalEdges
<1>1. Init => SettlingInv
  BY DEF Init, SettlingInv, Handling, IdleOperator
<1>2. TypeOK /\ SafetyInv /\ SettlingInv /\ [Next]_vars => SettlingInv'
  BY SettlingStep
<1>3. TypeOK /\ SafetyInv /\ SettlingInv /\ [Next]_vars => [LegalStep]_state
  <2> SUFFICES ASSUME TypeOK, SafetyInv, SettlingInv, [Next]_vars,
                      NEW c \in Calls, state'[c] # state[c]
               PROVE  \/ CanTransition(state[c], state'[c])
                      \/ state[c] = NoRow /\ state'[c] = "reserved"
    BY DEF LegalStep
  <2>1. CASE \E o \in Operators : Records(o)
    BY <2>1, RecordsLegal
  <2>2. CASE \A o \in Operators : ~Records(o)
    BY <2>2, OtherStepsLegal, WorkerEdgesLegal
  <2> QED
    BY <2>1, <2>2
<1> QED
  BY <1>1, <1>2, <1>3, PayoutTyped, SafetyHolds, PTL DEF Spec, LegalEdges

-----------------------------------------------------------------------------
(* The saga implements the capacity model of reservation.ts, and therefore  *)
(* keeps the cash it hands to the payment rail within both caps.            *)

\* The theorems of the capacity model, about the reservations of the saga.
Model == INSTANCE ReservationProofs WITH Sessions <- Days, cash <- Cash

\* The assumptions of the model hold of the saga's constants.
LEMMA ModelAssumption ==
    /\ Model!IsFiniteSet(Calls)
    /\ Model!RulesAssumption
    /\ Model!MaxCashAssumption
BY PayoutAssumption, RulesAssumption, MaxCashAssumption
   DEF Model!IsFiniteSet, IsFiniteSet

LEMMA CashTyped == TypeOK => Cash \in [Calls -> 1 .. MaxCash]
<1> SUFFICES ASSUME TypeOK, NEW c \in Calls
             PROVE  gross[c] \div 2 \in 1 .. MaxCash
  BY DEF Cash, CashForGross
<1>1. gross[c] \in 2 .. (2 * MaxCash)
  BY PayoutAssumption DEF TypeOK, RequestType
<1> QED
  BY <1>1, MaxCashAssumption

LEMMA CapacityInit == Init => Capacity!ReservationInit
<1> SUFFICES ASSUME Init PROVE Capacity!ReservationInit
  OBVIOUS
<1>1. Cash \in [Calls -> 1 .. MaxCash]
  BY InitTyped, CashTyped
<1>2. rday \in [Calls -> Days]
  BY InitTyped DEF TypeOK, RequestType
<1> QED
  BY <1>1, <1>2 DEF Init, Capacity!ReservationInit

\* The instances have copies of the library's operators, which mean the same.
LEMMA SameTotal ==
    ASSUME NEW S
    PROVE  /\ Capacity!Total(Cash, S) = Total(Cash, S)
           /\ Model!Total(Cash, S) = Total(Cash, S)
BY DEF Total, SumOver, MapThenSumSet, MapThenFoldSet,
       Capacity!Total, Capacity!SumOver, Capacity!MapThenSumSet, Capacity!MapThenFoldSet,
       Model!Total, Model!SumOver, Model!MapThenSumSet, Model!MapThenFoldSet

LEMMA HeldTotals ==
    ASSUME TypeOK, NEW S \in SUBSET Calls, NEW T \in SUBSET S
    PROVE  /\ Total(Cash, T) <= Total(Cash, S)
           /\ Total(Cash, T) \in Nat /\ Total(Cash, S) \in Nat
<1>1. IsFiniteSet(S)
  BY PayoutAssumption, FS_Subset
<1>2. \A c \in S : Cash[c] \in Nat
  BY CashTyped, MaxCashAssumption
<1> QED
  BY <1>1, <1>2, SumGrows DEF Total

\* What is held, and the test of a reservation, mean the same in the saga ...
LEMMA SameHeld ==
    /\ Capacity!Held = Held
    /\ \A d : Capacity!HeldOn(d) = HeldOn(d)
    /\ \A a, x, y : Capacity!MayReserve(a, x, y) <=> MayReserve(a, x, y)
<1>1. Capacity!Held = Held
  BY DEF Capacity!Held, Held
<1>2. \A d : Capacity!HeldOn(d) = HeldOn(d)
  BY <1>1 DEF Capacity!HeldOn, HeldOn
<1>3. \A x : Capacity!NonNegative(x) = NonNegative(x)
  BY DEF Capacity!NonNegative, NonNegative
<1>4. /\ \A x : Capacity!RemainingDaily(x) = RemainingDaily(x)
      /\ \A x : Capacity!RemainingLifetime(x) = RemainingLifetime(x)
  BY <1>3 DEF Capacity!RemainingDaily, RemainingDaily,
              Capacity!RemainingLifetime, RemainingLifetime
<1>5. \A a, x, y : Capacity!MayReserve(a, x, y) <=> MayReserve(a, x, y)
  BY <1>4 DEF Capacity!MayReserve, MayReserve
<1> QED
  BY <1>1, <1>2, <1>5

\* ... and in the two instances of the model.
LEMMA SameModel ==
    /\ Model!Held = Capacity!Held
    /\ \A d : Model!HeldOn(d) = Capacity!HeldOn(d)
    /\ \A a, x, y : Model!MayReserve(a, x, y) <=> Capacity!MayReserve(a, x, y)
<1>1. Model!Held = Capacity!Held
  BY DEF Model!Held, Capacity!Held
<1>2. \A d : Model!HeldOn(d) = Capacity!HeldOn(d)
  BY <1>1 DEF Model!HeldOn, Capacity!HeldOn
<1>3. \A x : Model!NonNegative(x) = Capacity!NonNegative(x)
  BY DEF Model!NonNegative, Capacity!NonNegative
<1>4. /\ \A x : Model!RemainingDaily(x) = Capacity!RemainingDaily(x)
      /\ \A x : Model!RemainingLifetime(x) = Capacity!RemainingLifetime(x)
  BY <1>3 DEF Model!RemainingDaily, Capacity!RemainingDaily,
              Model!RemainingLifetime, Capacity!RemainingLifetime
<1>5. \A a, x, y : Model!MayReserve(a, x, y) <=> Capacity!MayReserve(a, x, y)
  BY <1>4 DEF Model!MayReserve, Capacity!MayReserve
<1> QED
  BY <1>1, <1>2, <1>5

\* Steps that take, consume or release no reservation.
LEMMA OtherSteps ==
    ASSUME UNCHANGED <<resv, rday, gross>>
    PROVE  UNCHANGED Capacity!resvVars
BY DEF Capacity!resvVars, Cash

\* requestPayout's transaction is reserveCapacity, or nothing.
LEMMA ReserveImplements ==
    ASSUME TypeOK, SafetyInv, NEW c \in Calls, RequestReserve(c)
    PROVE  [Capacity!ReservationNext]_(Capacity!resvVars)
<1> DEFINE d == call[c].view.day
<1>1. UNCHANGED gross /\ Cash' = Cash
  BY DEF RequestReserve, Cash
<1>2. CASE UNCHANGED <<state, resv, rday, jobs>>
  BY <1>1, <1>2, OtherSteps
<1>3. CASE /\ ~KeyTaken(c)
           /\ MayReserve(Cash[c], Total(Cash, HeldOn(d)), Total(Cash, Held))
           /\ resv' = [resv EXCEPT ![c] = "ACTIVE"]
           /\ rday' = [rday EXCEPT ![c] = d]
  <2>1. resv[c] = "NONE"
    BY <1>3 DEF KeyTaken, SafetyInv, JobInv
  <2>2. d \in Days
    BY DEF TypeOK, RequestType, Call, View
  <2>3. Capacity!MayReserve(Cash[c], Capacity!Total(Cash, Capacity!HeldOn(d)),
                            Capacity!Total(Cash, Capacity!Held))
    <3>1. /\ Capacity!Total(Cash, HeldOn(d)) = Total(Cash, HeldOn(d))
          /\ Capacity!Total(Cash, Held) = Total(Cash, Held)
      BY SameTotal DEF Held, HeldOn
    <3> QED
      BY <1>3, <3>1, SameHeld
  <2>4. Capacity!Reserve(c)
    BY <1>1, <1>3, <2>1, <2>2, <2>3 DEF Capacity!Reserve
  <2> QED
    BY <2>4 DEF Capacity!ReservationNext
<1> QED
  BY <1>2, <1>3 DEF RequestReserve

\* markPayoutPaid consumes an active reservation, or one already consumed.
LEMMA PaidPostImplements ==
    ASSUME TypeOK, SafetyInv, NEW o \in Operators, PaidPost(o)
    PROVE  [Capacity!ReservationNext]_(Capacity!resvVars)
<1> DEFINE c == oper[o].call
<1>1. UNCHANGED <<rday, gross>> /\ Cash' = Cash
  BY DEF PaidPost, Cash
<1>2. c \in Calls /\ rail[c] = "sent"
  BY HandlingFacts DEF PaidPost, Handling, OperatorPhase
<1>3. resv[c] \in {"ACTIVE", "CONSUMED"}
  BY <1>2 DEF SafetyInv, MoneyInv, MoneyOf, CashMoving
<1>4. resv' = [resv EXCEPT ![c] = "CONSUMED"]
  BY DEF PaidPost
<1>5. CASE resv[c] = "ACTIVE"
  <2>1. Capacity!Consume(c)
    BY <1>1, <1>4, <1>5 DEF Capacity!Consume
  <2> QED
    BY <1>2, <2>1 DEF Capacity!ReservationNext
<1>6. CASE resv[c] = "CONSUMED"
  <2>1. resv' = resv
    BY <1>4, <1>6 DEF TypeOK, RequestType
  <2> QED
    BY <1>1, <2>1, OtherSteps
<1> QED
  BY <1>3, <1>5, <1>6

\* resolveReconciliation releases an active reservation, or nothing: cash
\* that is known not to have been paid was never consumed.
LEMMA FailLocalImplements ==
    ASSUME TypeOK, SafetyInv, NEW o \in Operators, FailLocal(o)
    PROVE  [Capacity!ReservationNext]_(Capacity!resvVars)
<1> DEFINE c == oper[o].call
<1>1. UNCHANGED <<rday, gross>> /\ Cash' = Cash
  BY DEF FailLocal, Cash
<1>2. /\ c \in Calls
      /\ rail[c] \in {"idle", "bounced"}
      /\ state[c] \in {"needs_reconciliation", "failed"}
  BY HandlingFacts DEF FailLocal, Handling, OperatorPhase
<1>3. resv[c] \in {"ACTIVE", "RELEASED"}
  BY <1>2 DEF SafetyInv, MoneyInv, MoneyOf, TypeOK, RequestType, NoRow
<1>4. \/ resv' = [resv EXCEPT ![c] = "RELEASED"]
      \/ resv' = [resv EXCEPT ![c] = resv[c]]
  BY DEF FailLocal
<1>5. CASE resv[c] = "ACTIVE" /\ resv' = [resv EXCEPT ![c] = "RELEASED"]
  <2>1. Capacity!Release(c)
    BY <1>1, <1>5 DEF Capacity!Release
  <2> QED
    BY <1>2, <2>1 DEF Capacity!ReservationNext
<1>6. CASE \/ resv[c] = "RELEASED"
           \/ resv' = [resv EXCEPT ![c] = resv[c]]
  <2>1. resv' = resv
    BY <1>4, <1>6 DEF TypeOK, RequestType
  <2> QED
    BY <1>1, <2>1, OtherSteps
<1> QED
  BY <1>3, <1>4, <1>5, <1>6

\* Every other step leaves the reservations alone.
LEMMA UnreservedSteps ==
    ASSUME [Next]_vars,
           \A c \in Calls : ~RequestReserve(c),
           \A o \in Operators : ~PaidPost(o) /\ ~FailLocal(o)
    PROVE  UNCHANGED <<resv, rday, gross>>
<1>1. ASSUME NEW c \in Calls,
             \/ RequestRead(c) \/ RequestValidate(c)
             \/ SendCash(c) \/ RailOutcome(c)
      PROVE  UNCHANGED <<resv, rday, gross>>
  BY <1>1 DEF RequestRead, RequestValidate, SendCash, RailOutcome, reqVars
<1>2. ASSUME NEW w \in Workers, Claim(w) \/ WorkerStep(w) \/ WorkerCrash(w)
      PROVE  UNCHANGED <<resv, rday, gross>>
  BY <1>2 DEF Claim, WorkerStep, WorkerCrash, V_Read, V_Mark, V_Account,
              V_Decide, V_Park, V_Approve, V_Accrue, V_Enqueue, S_Read,
              S_Deduct, S_Park, S_Mark, S_Local, Finish, reqVars
<1>3. ASSUME NEW j \in JobIds, Recover(j)
      PROVE  UNCHANGED <<resv, rday, gross>>
  BY <1>3 DEF Recover, reqVars
<1>4. ASSUME NEW o \in Operators, NEW c \in Calls,
             PaidRead(o, c) \/ UnknownRead(o, c) \/ NotPaidRead(o, c)
      PROVE  UNCHANGED <<resv, rday, gross>>
  BY <1>4 DEF PaidRead, UnknownRead, NotPaidRead, reqVars
<1>5. ASSUME NEW o \in Operators, OperatorStep(o) \/ OperatorCrash(o)
      PROVE  UNCHANGED <<resv, rday, gross>>
  BY <1>5 DEF OperatorStep, OperatorCrash, PaidMark, CloseRead, CloseWrite,
              UnknownMark, FailMark, FailCredit, reqVars
<1>6. CASE SyncFetch \/ SyncStep \/ GoStale \/ Trade \/ NewSession
  BY <1>6 DEF SyncFetch, SyncStep, SyncRead, SyncWrite, EnforceDaily,
              EnforceTrailing, GoStale, Trade, NewSession, reqVars
<1>7. CASE UNCHANGED vars
  BY <1>7 DEF vars, reqVars
<1> QED
  BY <1>1, <1>2, <1>3, <1>4, <1>5, <1>6, <1>7 DEF Next

LEMMA StepImplements ==
    ASSUME TypeOK, SafetyInv, [Next]_vars
    PROVE  [Capacity!ReservationNext]_(Capacity!resvVars)
BY ReserveImplements, PaidPostImplements, FailLocalImplements,
   UnreservedSteps, OtherSteps

\* The handlers of payout-service.ts write the status column themselves, in
\* two transactions far apart, and yet no interleaving of callers, workers,
\* operators and crashes takes a reservation through anything but
\* reserveCapacity, consumeReservation and releaseReservation.
THEOREM SagaImplementsReservation ==
    ASSUME ~SlowWorkers PROVE Spec => ImplementsReservation
<1>1. TypeOK /\ SafetyInv /\ [Next]_vars
        => [Capacity!ReservationNext]_(Capacity!resvVars)
  BY StepImplements
<1> QED
  BY <1>1, CapacityInit, PayoutTyped, SafetyHolds, PTL
     DEF Spec, ImplementsReservation, Capacity!ReservationSpec

-----------------------------------------------------------------------------
(* The caps.                                                               *)

LEMMA CapacityIsModel ==
    /\ Capacity!ReservationInit => Model!ReservationInit
    /\ TypeOK /\ [Capacity!ReservationNext]_(Capacity!resvVars)
         => [Model!ReservationNext]_(Model!resvVars)
<1>1. Capacity!ReservationInit => Model!ReservationInit
  BY DEF Capacity!ReservationInit, Model!ReservationInit
<1>2. ASSUME TypeOK, NEW c \in Calls, Capacity!Reserve(c)
      PROVE  Model!Reserve(c)
  <2>1. PICK d \in Days :
           /\ Capacity!MayReserve(Cash[c],
                 Capacity!Total(Cash, Capacity!HeldOn(d)),
                 Capacity!Total(Cash, Capacity!Held))
           /\ rday' = [rday EXCEPT ![c] = d]
    BY <1>2 DEF Capacity!Reserve
  <2>2. /\ Model!Total(Cash, Model!HeldOn(d))
              = Capacity!Total(Cash, Capacity!HeldOn(d))
        /\ Model!Total(Cash, Model!Held) = Capacity!Total(Cash, Capacity!Held)
    <3>1. HeldOn(d) \in SUBSET Calls /\ Held \in SUBSET Calls
      BY DEF Held, HeldOn
    <3> QED
      BY <1>2, <3>1, SameTotal, SameHeld, SameModel
  <2>3. Model!MayReserve(Cash[c], Model!Total(Cash, Model!HeldOn(d)),
                         Model!Total(Cash, Model!Held))
    BY <2>1, <2>2, SameModel
  <2> QED
    BY <1>2, <2>1, <2>3 DEF Capacity!Reserve, Model!Reserve
<1>3. ASSUME NEW c \in Calls, Capacity!Consume(c) \/ Capacity!Release(c)
      PROVE  Model!Consume(c) \/ Model!Release(c)
  BY <1>3 DEF Capacity!Consume, Model!Consume, Capacity!Release, Model!Release
<1>4. TypeOK /\ Capacity!ReservationNext => Model!ReservationNext
  BY <1>2, <1>3 DEF Capacity!ReservationNext, Model!ReservationNext
<1>5. UNCHANGED Capacity!resvVars => UNCHANGED Model!resvVars
  BY DEF Capacity!resvVars, Model!resvVars
<1> QED
  BY <1>1, <1>4, <1>5

LEMMA ModelCaps == TypeOK /\ Model!CapsRespected => CapsInv
<1> SUFFICES ASSUME TypeOK, Model!CapsRespected PROVE CapsInv
  OBVIOUS
<1>1. /\ Model!Total(Cash, Model!Held) = Total(Cash, Held)
      /\ \A d \in Days : Model!Total(Cash, Model!HeldOn(d)) = Total(Cash, HeldOn(d))
  <2>1. Held \in SUBSET Calls /\ \A d \in Days : HeldOn(d) \in SUBSET Calls
    BY DEF Held, HeldOn
  <2> QED
    BY <2>1, SameTotal, SameHeld, SameModel
<1> QED
  BY <1>1 DEF Model!CapsRespected, CapsInv

\* Pending and paid cash of the saga together stay within both caps.
THEOREM CapsAreKept ==
    ASSUME ~SlowWorkers PROVE Spec => []CapsInv
<1>1. []TypeOK /\ Capacity!ReservationSpec => Model!ReservationSpec
  BY CapacityIsModel, PTL DEF Capacity!ReservationSpec, Model!ReservationSpec
<1>2. Model!ReservationSpec => []Model!CapsRespected
  BY Model!CapsHold, ModelAssumption, PTL
<1> QED
  BY <1>1, <1>2, ModelCaps, PayoutTyped, SagaImplementsReservation, PTL
     DEF ImplementsReservation

\* The cash actually handed to the rail stays within the daily cap of every
\* session and within the lifetime cap.
THEOREM CashIsBounded ==
    ASSUME ~SlowWorkers PROVE Spec => []CashWithinCaps
<1>1. TypeOK /\ SafetyInv /\ CapsInv => CashWithinCaps
  <2> SUFFICES ASSUME TypeOK, SafetyInv, CapsInv PROVE CashWithinCaps
    OBVIOUS
  <2> DEFINE Out == {c \in Calls : CashMoving(c)}
             OutOn(d) == {c \in Calls : CashMoving(c) /\ rday[c] = d}
  <2>1. /\ Out \subseteq Held
        /\ \A d \in Days : OutOn(d) \subseteq HeldOn(d)
    BY DEF SafetyInv, MoneyInv, MoneyOf, Held, HeldOn
  <2>2. Held \in SUBSET Calls /\ \A d \in Days : HeldOn(d) \in SUBSET Calls
    BY DEF Held, HeldOn
  <2>4. ASSUME NEW d \in Days PROVE Total(Cash, OutOn(d)) <= DailyCap
    <3>1. /\ Total(Cash, OutOn(d)) <= Total(Cash, HeldOn(d))
          /\ Total(Cash, OutOn(d)) \in Nat /\ Total(Cash, HeldOn(d)) \in Nat
      BY <2>1, <2>2, HeldTotals
    <3>2. Total(Cash, HeldOn(d)) <= DailyCap
      BY DEF CapsInv
    <3> HIDE DEF OutOn
    <3> QED
      BY <3>1, <3>2, RulesAssumption
  <2>5. ASSUME Capped PROVE Total(Cash, Out) <= LifetimeCap
    <3>1. /\ Total(Cash, Out) <= Total(Cash, Held)
          /\ Total(Cash, Out) \in Nat /\ Total(Cash, Held) \in Nat
      BY <2>1, <2>2, HeldTotals
    <3>2. Total(Cash, Held) <= LifetimeCap
      BY <2>5 DEF CapsInv
    <3> HIDE DEF Out
    <3> QED
      BY <3>1, <3>2, RulesAssumption
  <2> QED
    BY <2>4, <2>5 DEF CashWithinCaps
<1> QED
  BY <1>1, PayoutTyped, SafetyHolds, CapsAreKept, PTL

-----------------------------------------------------------------------------
(* The buffer, while one request is all that moves the balance.  b is the   *)
(* balance the account started from.                                        *)

Taken(c) == <<"deduct", c>> \in prov.done
Refunded(c) == <<"reverse", c>> \in prov.done
Early == {NoRow, "reserved", "validating", "approved"}

\* The most a request may ask for, and the highest balance anybody has seen.
Room(b) == AccountLimit(b, ComputeThreshold(b))
Peak(b) == IF \E c \in Calls : Refunded(c) THEN prov.bal ELSE b
Between(b, thr) ==
    ComputeThreshold(b) <= thr /\ thr <= ComputeThreshold(Peak(b))

ProviderKept(b) ==
    /\ (\A c \in Calls : ~Taken(c) /\ ~Refunded(c)) => prov.bal = b
    /\ \A c \in Calls : /\ Taken(c) /\ ~Refunded(c) => prov.bal = b - gross[c]
                        /\ Refunded(c) => prov.bal >= b
MarksKept(b) ==
    /\ acct.high <= Peak(b)
    /\ Between(b, acct.thr)
    /\ sync.pc # "idle" => sync.bal <= Peak(b)
    /\ sync.pc = "write" => sync.row.high <= Peak(b) /\ Between(b, sync.row.thr)
LocalKept(b) == (\A c \in Calls : state[c] \in Early) => acct.bal <= b
RoomKept(b) ==
    /\ \A w \in Workers :
          /\ At(w, "v_decide") => worker[w].view.limit <= Room(b)
          /\ At(w, "v_approve") => gross[worker[w].call] <= Room(b)
    /\ \A c \in Calls :
          state[c] = "approved" \/ Taken(c) => gross[c] <= Room(b)

Kept(b) == ProviderKept(b) /\ MarksKept(b) /\ LocalKept(b) /\ RoomKept(b)

LEMMA GrossIsPositive ==
    ASSUME TypeOK, NEW c \in Calls
    PROVE  gross[c] \in Int /\ gross[c] > 0
<1>1. gross[c] \in Asks
  BY DEF TypeOK, RequestType
<1>2. Asks \subseteq 2 .. (2 * MaxCash) /\ MaxCash \in Nat
  BY PayoutAssumption, MaxCashAssumption
<1>3. gross[c] \in 2 .. (2 * MaxCash)
  BY <1>1, <1>2
<1> QED
  BY <1>2, <1>3

LEMMA ThresholdIsMonotone ==
    \A x, y \in Int :
       /\ ComputeThreshold(x) \in Int
       /\ ComputeThreshold(x) <= x - Drawdown
       /\ x <= y => ComputeThreshold(x) <= ComputeThreshold(y)
BY RiskAssumption DEF ComputeThreshold

\* A higher balance and a lower threshold leave more room.
LEMMA RoomIsMonotone ==
    \A x, y, s, t \in Int :
       /\ AccountLimit(x, t) \in Int
       /\ x <= y /\ s <= t => AccountLimit(x, t) <= AccountLimit(y, s)
BY RulesAssumption DEF AccountLimit, Least, NonNegative

LEMMA AllowedIsWithin ==
    ASSUME NEW g \in Int, NEW limit \in Int, NEW daily \in Int,
           NEW lifetime \in Int,
           GrossAllowed(g, MaxGross(limit, daily, lifetime))
    PROVE  g <= limit
<1>1. \A v \in Int : FloorToIncrement(v) \in Int /\ FloorToIncrement(v) <= v
  BY RulesAssumption DEF FloorToIncrement
<1> DEFINE v == Least(limit, CapLimit(daily, lifetime))
<1>2. v \in Int /\ v <= limit
  BY DEF Least, CapLimit
<1>3. GrossAllowed(g, FloorToIncrement(v))
  BY DEF MaxGross
<1> HIDE DEF v
<1>4. g <= FloorToIncrement(v)
  BY <1>3 DEF GrossAllowed
<1>5. FloorToIncrement(v) \in Int /\ FloorToIncrement(v) <= v
  BY <1>1, <1>2
<1> QED
  BY <1>2, <1>4, <1>5

\* A withdrawal within the room keeps the buffer and stays above the threshold.
LEMMA RoomKeepsBuffer ==
    ASSUME NEW b \in Int, NEW g \in Int, g > 0, g <= Room(b)
    PROVE  /\ b - g >= StartBalance + Buffer
           /\ b - g >= ComputeThreshold(b) + MinRoom
<1>1. ComputeThreshold(b) \in Int
  BY ThresholdIsMonotone
<1>2. \A t \in Int : g <= AccountLimit(b, t) =>
         b - g >= StartBalance + Buffer /\ b - g >= t + MinRoom
  BY RulesAssumption DEF AccountLimit, Least, NonNegative
<1> QED
  BY <1>1, <1>2 DEF Room

-----------------------------------------------------------------------------
(* Which step moves what.                                                   *)

\* A request, once made, stays made, and does not go back to its early states.
LEMMA RowsStay ==
    ASSUME TypeOK, SafetyInv, [Next]_vars, NEW k \in Calls
    PROVE  /\ state[k] # NoRow => state'[k] # NoRow
           /\ state'[k] \in Early => state[k] \in Early
           /\ state'[k] = "approved" =>
                 \/ state[k] = "approved"
                 \/ \E w \in Workers : V_Approve(w) /\ worker[w].call = k
<1>1. ASSUME NEW o \in Operators, Records(o)
      PROVE  state'[k] = state[k]
             \/ state'[k] \in {"paid", "failed", "needs_reconciliation"}
  BY <1>1 DEF Records, PaidMark, UnknownMark, FailMark, TypeOK, RequestType
<1>2. \/ state'[k] = state[k]
      \/ state'[k] \in {"paid", "failed", "needs_reconciliation"}
      \/ state[k] = NoRow /\ state'[k] = "reserved"
      \/ <<state[k], state'[k]>> \in WorkerEdges
  BY <1>1, OtherStepsLegal
<1>3. ASSUME state'[k] = "approved", state[k] # "approved"
      PROVE  \E w \in Workers : V_Approve(w) /\ worker[w].call = k
  <2>1. ASSUME NEW w \in Workers, V_Mark(w) \/ V_Park(w) \/ S_Park(w) \/ S_Mark(w)
        PROVE  FALSE
    BY <1>3, <2>1 DEF V_Mark, V_Park, S_Park, S_Mark, RecordTransition, TypeOK,
       RequestType
  <2>2. ASSUME NEW w \in Workers, V_Approve(w)
        PROVE  worker[w].call = k
    BY <1>3, <2>2 DEF V_Approve, RecordTransition, TypeOK, RequestType
  <2>3. ASSUME NEW c \in Calls, RequestReserve(c) PROVE FALSE
    BY <1>3, <2>3 DEF RequestReserve, TypeOK, RequestType
  <2>4. \A o \in Operators : ~Records(o)
    BY <1>1, <1>3
  <2>5. ASSUME NEW w \in Workers, \/ Claim(w) \/ WorkerCrash(w)
                                  \/ WorkerStep(w) /\ ~V_Approve(w)
        PROVE  FALSE
    BY <1>3, <2>1, <2>5 DEF Claim, WorkerCrash, WorkerStep, V_Read, V_Account,
       V_Decide, V_Accrue, V_Enqueue, S_Read, S_Deduct, S_Local, Finish, reqVars
  <2>6. ASSUME \/ \E c \in Calls :
                     \/ RequestRead(c) \/ RequestValidate(c)
                     \/ SendCash(c) \/ RailOutcome(c)
               \/ \E j \in JobIds : Recover(j)
               \/ \E o \in Operators, c \in Calls :
                     PaidRead(o, c) \/ UnknownRead(o, c) \/ NotPaidRead(o, c)
               \/ \E o \in Operators : OperatorCrash(o)
               \/ SyncFetch \/ SyncStep \/ GoStale \/ Trade \/ NewSession
               \/ UNCHANGED vars
        PROVE  FALSE
    BY <1>3, <2>6 DEF RequestRead, RequestValidate, SendCash, RailOutcome,
       Recover, PaidRead, UnknownRead, NotPaidRead, OperatorCrash, SyncFetch,
       SyncStep, SyncRead, SyncWrite, EnforceDaily, EnforceTrailing, GoStale,
       Trade, NewSession, vars, reqVars
  <2>7. ASSUME NEW o \in Operators, OperatorStep(o)
        PROVE  FALSE
    BY <1>3, <2>4, <2>7 DEF OperatorStep, Records, PaidPost, CloseRead,
       CloseWrite, FailCredit, FailLocal, reqVars
  <2> QED
    BY <2>2, <2>3, <2>5, <2>6, <2>7 DEF Next, WorkerStep
<1> QED
  BY <1>2, <1>3 DEF Early, WorkerEdges, NoRow

\* The amount of a request never changes.
LEMMA AmountsStand ==
    ASSUME [Next]_vars PROVE gross' = gross
<1>1. ASSUME NEW w \in Workers, Claim(w) \/ WorkerStep(w) \/ WorkerCrash(w)
      PROVE  gross' = gross
  BY <1>1 DEF Claim, WorkerStep, WorkerCrash, V_Read, V_Mark, V_Account,
     V_Decide, V_Park, V_Approve, V_Accrue, V_Enqueue, S_Read, S_Deduct,
     S_Park, S_Mark, S_Local, Finish, reqVars
<1>2. ASSUME NEW o \in Operators, OperatorStep(o) \/ OperatorCrash(o)
      PROVE  gross' = gross
  BY <1>2 DEF OperatorStep, PaidMark, UnknownMark, FailMark, OperatorCrash,
     PaidPost, CloseRead, CloseWrite, FailCredit, FailLocal, reqVars
<1>3. ASSUME \/ \E c \in Calls :
                   \/ RequestRead(c) \/ RequestValidate(c) \/ RequestReserve(c)
                   \/ SendCash(c) \/ RailOutcome(c)
             \/ \E j \in JobIds : Recover(j)
             \/ \E o \in Operators, c \in Calls :
                   PaidRead(o, c) \/ UnknownRead(o, c) \/ NotPaidRead(o, c)
             \/ SyncFetch \/ SyncStep \/ GoStale \/ Trade \/ NewSession
             \/ UNCHANGED vars
      PROVE  gross' = gross
  BY <1>3 DEF RequestRead, RequestValidate, RequestReserve, SendCash,
     RailOutcome, Recover, PaidRead, UnknownRead, NotPaidRead, SyncFetch,
     SyncStep, SyncRead, SyncWrite, EnforceDaily, EnforceTrailing, GoStale,
     Trade, NewSession, vars, reqVars
<1> QED
  BY <1>1, <1>2, <1>3 DEF Next

\* The balance at the provider moves by a deduction, a refund or a trade.
LEMMA BalanceMoves ==
    ASSUME TypeOK, [Next]_vars, ~Trade
    PROVE  \/ prov'.bal = prov.bal /\ prov'.done = prov.done
           \/ \E w \in Workers :
                 /\ S_Deduct(w)
                 /\ prov' = Applied(<<"deduct", worker[w].call>>,
                                    -gross[worker[w].call])
           \/ \E o \in Operators :
                 /\ FailCredit(o)
                 /\ prov' = Applied(<<"reverse", oper[o].call>>,
                                    gross[oper[o].call])
<1>0. prov \in ProviderAccount
  BY DEF TypeOK, AccountType
<1>1. ASSUME NEW w \in Workers,
             \/ Claim(w) \/ WorkerCrash(w)
             \/ WorkerStep(w) /\ ~S_Deduct(w)
      PROVE  prov' = prov
  BY <1>1 DEF Claim, WorkerStep, WorkerCrash, V_Read, V_Mark, V_Account,
     V_Decide, V_Park, V_Approve, V_Accrue, V_Enqueue, S_Read,
     S_Park, S_Mark, S_Local, Finish, acctVars
<1>2. ASSUME NEW o \in Operators,
             \/ OperatorStep(o) /\ ~FailCredit(o)
             \/ OperatorCrash(o)
      PROVE  prov' = prov
  BY <1>2 DEF OperatorStep, PaidMark, UnknownMark, FailMark, OperatorCrash,
     PaidPost, CloseRead, CloseWrite, FailLocal, acctVars
<1>3. ASSUME \/ \E c \in Calls :
                   \/ RequestRead(c) \/ RequestValidate(c) \/ RequestReserve(c)
                   \/ SendCash(c) \/ RailOutcome(c)
             \/ \E j \in JobIds : Recover(j)
             \/ \E o \in Operators, c \in Calls :
                   PaidRead(o, c) \/ UnknownRead(o, c) \/ NotPaidRead(o, c)
             \/ SyncFetch \/ SyncRead \/ SyncWrite \/ GoStale \/ NewSession
             \/ UNCHANGED vars
      PROVE  prov' = prov
  BY <1>3 DEF RequestRead, RequestValidate, RequestReserve, SendCash,
     RailOutcome, Recover, PaidRead, UnknownRead, NotPaidRead, SyncFetch,
     SyncRead, SyncWrite, GoStale, NewSession, vars, acctVars
<1>4. ASSUME EnforceDaily \/ EnforceTrailing
      PROVE  prov'.bal = prov.bal /\ prov'.done = prov.done
  BY <1>0, <1>4 DEF EnforceDaily, EnforceTrailing, Flattened, ProviderAccount
<1>5. ASSUME NEW w \in Workers, S_Deduct(w)
      PROVE  prov' = prov \/ prov' = Applied(<<"deduct", worker[w].call>>,
                                             -gross[worker[w].call])
  BY <1>5 DEF S_Deduct
<1>6. ASSUME NEW o \in Operators, FailCredit(o)
      PROVE  prov' = prov \/ prov' = Applied(<<"reverse", oper[o].call>>,
                                             gross[oper[o].call])
  BY <1>6 DEF FailCredit
<1> QED
  BY <1>1, <1>2, <1>3, <1>4, <1>5, <1>6
     DEF Next, SyncStep, WorkerStep, OperatorStep

\* Nobody raises what was read of the account but the poller.
LEMMA MarksMove ==
    ASSUME TypeOK, [Next]_vars
    PROVE  \/ SyncFetch \/ SyncRead \/ SyncWrite
           \/ /\ acct'.high = acct.high /\ acct'.thr = acct.thr
              /\ \/ sync' = sync
                 \/ sync'.pc = "idle"
                 \/ /\ sync.pc # "idle" /\ sync'.pc # "write"
                    /\ sync'.bal = sync.bal
<1>0. acct \in AccountRow /\ sync \in Poll
  BY DEF TypeOK, AccountType
<1>1. ASSUME NEW w \in Workers, Claim(w) \/ WorkerCrash(w) \/ WorkerStep(w)
      PROVE  acct'.high = acct.high /\ acct'.thr = acct.thr /\ sync' = sync
  BY <1>0, <1>1 DEF Claim, WorkerStep, WorkerCrash, V_Read, V_Mark, V_Account,
     V_Decide, V_Park, V_Approve, V_Accrue, V_Enqueue, S_Read, S_Deduct,
     S_Park, S_Mark, S_Local, Finish, acctVars, AccountRow
<1>2. ASSUME NEW o \in Operators, OperatorStep(o) \/ OperatorCrash(o)
      PROVE  acct'.high = acct.high /\ acct'.thr = acct.thr /\ sync' = sync
  BY <1>0, <1>2 DEF OperatorStep, PaidMark, UnknownMark, FailMark,
     OperatorCrash, PaidPost, CloseRead, CloseWrite, FailCredit, FailLocal,
     acctVars, AccountRow
<1>3. ASSUME \/ \E c \in Calls :
                   \/ RequestRead(c) \/ RequestValidate(c) \/ RequestReserve(c)
                   \/ SendCash(c) \/ RailOutcome(c)
             \/ \E j \in JobIds : Recover(j)
             \/ \E o \in Operators, c \in Calls :
                   PaidRead(o, c) \/ UnknownRead(o, c) \/ NotPaidRead(o, c)
             \/ GoStale \/ Trade \/ NewSession \/ UNCHANGED vars
      PROVE  acct'.high = acct.high /\ acct'.thr = acct.thr /\ sync' = sync
  BY <1>0, <1>3 DEF RequestRead, RequestValidate, RequestReserve, SendCash,
     RailOutcome, Recover, PaidRead, UnknownRead, NotPaidRead, GoStale, Trade,
     NewSession, vars, acctVars, AccountRow
<1>4. ASSUME EnforceDaily \/ EnforceTrailing
      PROVE  /\ acct'.high = acct.high /\ acct'.thr = acct.thr
             /\ \/ sync'.pc = "idle"
                \/ /\ sync.pc # "idle" /\ sync'.pc # "write"
                   /\ sync'.bal = sync.bal
  <2>1. acct'.high = acct.high /\ acct'.thr = acct.thr
    BY <1>0, <1>4 DEF EnforceDaily, EnforceTrailing, AccountRow
  <2>2. sync.pc # "idle" /\ sync' \in {IdleSync, [sync EXCEPT !.pc = "trail"]}
    BY <1>4 DEF EnforceDaily, EnforceTrailing
  <2>3. /\ IdleSync.pc = "idle"
        /\ [sync EXCEPT !.pc = "trail"].pc = "trail"
        /\ [sync EXCEPT !.pc = "trail"].bal = sync.bal
    BY <1>0 DEF IdleSync, Poll
  <2> QED
    BY <2>1, <2>2, <2>3
<1> QED
  BY <1>1, <1>2, <1>3, <1>4 DEF Next, SyncStep

\* The copy of the balance falls with a deduction, rises with a refund and is
\* else what the poller writes.
LEMMA CopyMoves ==
    ASSUME TypeOK, [Next]_vars
    PROVE  \/ acct'.bal = acct.bal
           \/ SyncWrite
           \/ \E w \in Workers : /\ S_Local(w)
                                 /\ acct'.bal = acct.bal - gross[worker[w].call]
           \/ \E o \in Operators : FailLocal(o)
<1>0. acct \in AccountRow
  BY DEF TypeOK, AccountType
<1>1. ASSUME NEW w \in Workers,
             \/ Claim(w) \/ WorkerCrash(w)
             \/ WorkerStep(w) /\ ~S_Local(w)
      PROVE  acct' = acct
  BY <1>1 DEF Claim, WorkerStep, WorkerCrash, V_Read, V_Mark, V_Account,
     V_Decide, V_Park, V_Approve, V_Accrue, V_Enqueue, S_Read, S_Deduct,
     S_Park, S_Mark, Finish, acctVars
<1>2. ASSUME NEW w \in Workers, S_Local(w)
      PROVE  acct'.bal = acct.bal - gross[worker[w].call]
  BY <1>0, <1>2 DEF S_Local, AccountRow
<1>3. ASSUME NEW o \in Operators,
             \/ OperatorStep(o) /\ ~FailLocal(o)
             \/ OperatorCrash(o)
      PROVE  acct'.bal = acct.bal
  BY <1>0, <1>3 DEF OperatorStep, PaidMark, UnknownMark, FailMark,
     OperatorCrash, PaidPost, CloseRead, CloseWrite, FailCredit, acctVars,
     AccountRow
<1>4. ASSUME \/ \E c \in Calls :
                   \/ RequestRead(c) \/ RequestValidate(c) \/ RequestReserve(c)
                   \/ SendCash(c) \/ RailOutcome(c)
             \/ \E j \in JobIds : Recover(j)
             \/ \E o \in Operators, c \in Calls :
                   PaidRead(o, c) \/ UnknownRead(o, c) \/ NotPaidRead(o, c)
             \/ SyncFetch \/ SyncRead \/ EnforceDaily \/ EnforceTrailing
             \/ GoStale \/ Trade \/ NewSession \/ UNCHANGED vars
      PROVE  acct'.bal = acct.bal
  BY <1>0, <1>4 DEF RequestRead, RequestValidate, RequestReserve, SendCash,
     RailOutcome, Recover, PaidRead, UnknownRead, NotPaidRead, SyncFetch,
     SyncRead, EnforceDaily, EnforceTrailing, GoStale, Trade, NewSession,
     vars, acctVars, AccountRow
<1> QED
  BY <1>1, <1>2, <1>3, <1>4 DEF Next, SyncStep, WorkerStep, OperatorStep

\* A worker comes to its decision by reading the account, to an approval by
\* deciding.
LEMMA WorkersDecide ==
    ASSUME TypeOK, [Next]_vars, NEW w \in Workers
    PROVE  /\ At(w, "v_decide")' => worker'[w] = worker[w] \/ V_Account(w)
           /\ At(w, "v_approve")' => worker'[w] = worker[w] \/ V_Decide(w)
<1>0. worker \in [Workers -> Worker]
  BY DEF TypeOK, ProcessType
<1>1. ASSUME NEW v \in Workers, NEW pc, Advance(v, pc),
             pc \notin {"v_decide", "v_approve"}
      PROVE  \/ worker'[w] = worker[w]
             \/ worker'[w].pc \notin {"v_decide", "v_approve"}
  BY <1>0, <1>1, AdvanceEffect DEF TypeOK
<1>2. ASSUME NEW v \in Workers, Claim(v) \/ WorkerCrash(v) \/ Finish(v)
      PROVE  \/ worker'[w] = worker[w]
             \/ worker'[w].pc \notin {"v_decide", "v_approve"}
  <2>1. CASE WorkerCrash(v) \/ Finish(v)
    <3>1. worker' = [worker EXCEPT ![v] = IdleWorker]
      BY <2>1 DEF WorkerCrash, Finish
    <3> QED
      BY <3>1, IdleEffect DEF TypeOK
  <2>2. CASE Claim(v)
    <3>1. PICK c \in Calls, s \in Stages :
             worker' = [worker EXCEPT ![v] =
                [pc |-> IF s = "validate" THEN "v_read" ELSE "s_read",
                 stage |-> s, call |-> c, view |-> NoView]]
      BY <2>2 DEF Claim
    <3> QED
      BY <1>0, <3>1
  <2> QED
    BY <1>2, <2>1, <2>2
<1>3. ASSUME NEW v \in Workers,
             \/ V_Read(v) \/ V_Mark(v) \/ V_Park(v) \/ V_Approve(v)
             \/ V_Accrue(v) \/ V_Enqueue(v) \/ S_Read(v) \/ S_Deduct(v)
             \/ S_Park(v) \/ S_Mark(v) \/ S_Local(v)
      PROVE  \/ worker'[w] = worker[w]
             \/ worker'[w].pc \notin {"v_decide", "v_approve"}
  <2>1. \E pc : Advance(v, pc) /\ pc \notin {"v_decide", "v_approve"}
    BY <1>3 DEF V_Read, V_Mark, V_Park, V_Approve, V_Accrue, V_Enqueue,
       S_Read, S_Deduct, S_Park, S_Mark, S_Local
  <2> QED
    BY <1>1, <2>1
<1>4. ASSUME NEW v \in Workers, V_Account(v)
      PROVE  /\ v # w => worker'[w] = worker[w]
             /\ v = w => worker'[w].pc = "v_decide"
  BY <1>0, <1>4 DEF V_Account
<1>5. ASSUME NEW v \in Workers, V_Decide(v)
      PROVE  /\ v # w => worker'[w] = worker[w]
             /\ v = w => worker'[w].pc # "v_decide"
  BY <1>0, <1>5 DEF V_Decide
<1>6. ASSUME NEW o \in Operators, OperatorStep(o) \/ OperatorCrash(o)
      PROVE  worker' = worker
  BY <1>6 DEF OperatorStep, PaidMark, UnknownMark, FailMark, OperatorCrash,
     PaidPost, CloseRead, CloseWrite, FailCredit, FailLocal, procVars
<1>7. ASSUME \/ \E c \in Calls :
                   \/ RequestRead(c) \/ RequestValidate(c) \/ RequestReserve(c)
                   \/ SendCash(c) \/ RailOutcome(c)
             \/ \E j \in JobIds : Recover(j)
             \/ \E o \in Operators, c \in Calls :
                   PaidRead(o, c) \/ UnknownRead(o, c) \/ NotPaidRead(o, c)
             \/ SyncFetch \/ SyncStep \/ GoStale \/ Trade \/ NewSession
             \/ UNCHANGED vars
      PROVE  worker' = worker
  BY <1>7 DEF RequestRead, RequestValidate, RequestReserve, SendCash,
     RailOutcome, Recover, PaidRead, UnknownRead, NotPaidRead, SyncFetch,
     SyncStep, SyncRead, SyncWrite, EnforceDaily, EnforceTrailing, GoStale,
     Trade, NewSession, vars, procVars
<1> QED
  BY <1>2, <1>3, <1>4, <1>5, <1>6, <1>7 DEF Next, WorkerStep, At

-----------------------------------------------------------------------------
(* The parts are kept together.                                             *)

\* With one request, the others have touched nothing.
LEMMA OnlyRow ==
    ASSUME TypeOK, SafetyInv, OneRequest, NEW c \in Calls, state[c] # NoRow
    PROVE  \A k \in Calls \ {c} : state[k] = NoRow /\ ~Taken(k) /\ ~Refunded(k)
BY DEF OneRequest, SafetyInv, JobInv, Taken, Refunded

LEMMA EarlyIsUntouched ==
    ASSUME TypeOK, SafetyInv, NEW c \in Calls, state[c] \in Early
    PROVE  ~Refunded(c)
BY DEF SafetyInv, JobInv, MoneyInv, MoneyOf, Early, Fresh, Refunded

\* What the steps that move the provider's balance find.
LEMMA DeductsApproved ==
    ASSUME TypeOK, SafetyInv, NEW w \in Workers, S_Deduct(w)
    PROVE  worker[w].call \in Calls /\ state[worker[w].call] = "approved"
<1>1. ~At(w, "idle") /\ At(w, "s_deduct")
  BY DEF S_Deduct, At
<1> QED
  BY <1>1, BusyFacts DEF BusyInv, WorkerPhase, At

LEMMA RefundsFailed ==
    ASSUME TypeOK, SafetyInv, NEW o \in Operators, FailCredit(o) \/ FailLocal(o)
    PROVE  /\ oper[o].call \in Calls
           /\ state[oper[o].call] \in {"needs_reconciliation", "failed"}
<1>1. ~Handling(o, "idle") /\ oper[o].pc \in {"fail_credit", "fail_local"}
  BY DEF FailCredit, FailLocal, Handling
<1> QED
  BY <1>1, HandlingFacts DEF OperatorPhase

\* A key is applied once.
LEMMA AppliedOnce ==
    ASSUME TypeOK, NEW key, NEW delta \in Int
    PROVE  /\ key \in prov.done => Applied(key, delta) = prov
           /\ key \notin prov.done =>
                 /\ Applied(key, delta).bal = prov.bal + delta
                 /\ Applied(key, delta).done = prov.done \union {key}
BY DEF TypeOK, AccountType, ProviderAccount, Applied

LEMMA ProviderStep ==
    ASSUME TypeOK, SafetyInv, [Next]_vars, ~Trade, OneRequest,
           NEW b \in Int, ProviderKept(b)
    PROVE  /\ ProviderKept(b)'
           /\ (\E c \in Calls : Refunded(c)) =>
                 /\ prov'.bal = prov.bal
                 /\ \E c \in Calls : Refunded(c)'
<1>0. prov.bal \in Int /\ gross' = gross /\ prov.done \subseteq ProviderKeys
  BY AmountsStand DEF TypeOK, AccountType, ProviderAccount
<1>1. CASE prov'.bal = prov.bal /\ prov'.done = prov.done
  BY <1>0, <1>1 DEF ProviderKept, Taken, Refunded
<1>2. ASSUME NEW w \in Workers, S_Deduct(w),
             prov' = Applied(<<"deduct", worker[w].call>>, -gross[worker[w].call])
      PROVE  /\ ProviderKept(b)'
             /\ (\E c \in Calls : Refunded(c)) =>
                   /\ prov'.bal = prov.bal
                   /\ \E c \in Calls : Refunded(c)'
  <2>0. PICK c \in Calls : c = worker[w].call /\ state[c] = "approved"
    BY <1>2, DeductsApproved
  <2>1. ~Refunded(c) /\ \A k \in Calls \ {c} : ~Taken(k) /\ ~Refunded(k)
    BY <2>0, EarlyIsUntouched, OnlyRow DEF Early, NoRow
  <2>2. CASE Taken(c)
    <3>1. prov' = prov
      BY <1>2, <2>0, <2>2, AppliedOnce, AmountTyped DEF Taken, TypeOK
    <3> QED
      BY <1>1, <3>1
  <2>3. CASE ~Taken(c)
    <3>1. /\ prov'.bal = prov.bal - gross[c] /\ prov.bal = b
          /\ prov'.done = prov.done \union {<<"deduct", c>>}
      BY <1>0, <1>2, <2>0, <2>1, <2>3, AppliedOnce, AmountTyped
         DEF Taken, TypeOK, ProviderKept
    <3>2. /\ Taken(c)'
          /\ \A k \in Calls : ~Refunded(k)'
          /\ \A k \in Calls \ {c} : ~Taken(k)'
      BY <2>1, <3>1 DEF Taken, Refunded
    <3> QED
      BY <1>0, <2>1, <3>1, <3>2 DEF ProviderKept
  <2> QED
    BY <2>2, <2>3
<1>3. ASSUME NEW o \in Operators, FailCredit(o),
             prov' = Applied(<<"reverse", oper[o].call>>, gross[oper[o].call])
      PROVE  /\ ProviderKept(b)'
             /\ (\E c \in Calls : Refunded(c)) =>
                   /\ prov'.bal = prov.bal
                   /\ \E c \in Calls : Refunded(c)'
  <2>0. PICK c \in Calls : /\ c = oper[o].call
                           /\ state[c] \in {"needs_reconciliation", "failed"}
    BY <1>3, RefundsFailed
  <2>1. \A k \in Calls \ {c} : ~Taken(k) /\ ~Refunded(k)
    BY <2>0, OnlyRow DEF NoRow
  <2>2. CASE Refunded(c)
    <3>1. prov' = prov
      BY <1>3, <2>0, <2>2, AppliedOnce, AmountTyped DEF Refunded, TypeOK
    <3> QED
      BY <1>1, <3>1
  <2>3. CASE ~Refunded(c)
    <3>1. /\ prov'.bal = prov.bal + gross[c]
          /\ prov'.done = prov.done \union {<<"reverse", c>>}
      BY <1>0, <1>3, <2>0, <2>3, AppliedOnce, AmountTyped DEF Refunded, TypeOK
    <3>2. prov'.bal >= b
      <4>1. CASE Taken(c)
        BY <1>0, <2>1, <2>3, <3>1, <4>1, GrossIsPositive DEF ProviderKept
      <4>2. CASE ~Taken(c)
        BY <1>0, <2>1, <2>3, <3>1, <4>2, GrossIsPositive DEF ProviderKept
      <4> QED
        BY <4>1, <4>2
    <3>3. /\ Refunded(c)'
          /\ \A k \in Calls \ {c} : ~Refunded(k)' /\ ~Taken(k)'
      BY <2>1, <3>1 DEF Taken, Refunded
    <3> QED
      BY <1>0, <2>1, <2>3, <3>2, <3>3 DEF ProviderKept
  <2> QED
    BY <2>2, <2>3
<1> QED
  BY <1>1, <1>2, <1>3, BalanceMoves

\* The peak never falls.
LEMMA PeakStep ==
    ASSUME TypeOK, SafetyInv, [Next]_vars, ~Trade, OneRequest,
           NEW b \in Int, ProviderKept(b)
    PROVE  /\ Peak(b) \in Int /\ Peak(b)' \in Int
           /\ prov.bal <= Peak(b) /\ b <= Peak(b) /\ Peak(b) <= Peak(b)'
<1>1. prov.bal \in Int /\ prov'.bal \in Int
  BY NextTyped DEF TypeOK, AccountType, ProviderAccount
<1>2. ProviderKept(b)'
  BY ProviderStep
<1>3. \A c \in Calls : gross[c] \in Int /\ gross[c] > 0
  BY GrossIsPositive
<1>4. prov.bal <= Peak(b) /\ b <= Peak(b)
  <2>1. CASE \E c \in Calls : Refunded(c)
    BY <1>1, <2>1 DEF Peak, ProviderKept
  <2>2. CASE \A c \in Calls : ~Refunded(c) /\ ~Taken(c)
    BY <1>1, <2>2 DEF Peak, ProviderKept
  <2>3. ASSUME \A c \in Calls : ~Refunded(c), NEW k \in Calls, Taken(k)
        PROVE  prov.bal <= Peak(b) /\ b <= Peak(b)
    BY <1>1, <1>3, <2>3 DEF Peak, ProviderKept
  <2> QED
    BY <2>1, <2>2, <2>3
<1>5. Peak(b) <= Peak(b)'
  <2>1. CASE \E c \in Calls : Refunded(c)
    BY <1>1, <2>1, ProviderStep DEF Peak
  <2>2. CASE \A c \in Calls : ~Refunded(c)
    BY <1>1, <1>2, <2>2 DEF Peak, ProviderKept
  <2> QED
    BY <2>1, <2>2
<1> QED
  BY <1>1, <1>4, <1>5 DEF Peak

LEMMA MarksStep ==
    ASSUME TypeOK, SafetyInv, [Next]_vars, ~Trade, OneRequest,
           NEW b \in Int, ProviderKept(b), MarksKept(b)
    PROVE  MarksKept(b)'
<1> DEFINE Low(h) == h <= Peak(b)
           In(t) == Between(b, t)
<1>0. /\ acct \in AccountRow /\ sync \in Poll
      /\ acct' \in AccountRow /\ sync' \in Poll
  BY NextTyped DEF TypeOK, AccountType
<1>1. /\ Peak(b) \in Int /\ Peak(b)' \in Int
      /\ prov.bal <= Peak(b) /\ b <= Peak(b) /\ Peak(b) <= Peak(b)'
  BY PeakStep
<1>2. /\ acct.high \in Int /\ acct.thr \in Int /\ sync.bal \in Int
      /\ sync.row.high \in Int /\ sync.row.thr \in Int
      /\ acct'.high \in Int /\ acct'.thr \in Int /\ sync'.bal \in Int
      /\ sync'.row.high \in Int /\ sync'.row.thr \in Int
  BY <1>0 DEF AccountRow, Poll
<1>3. \A h \in Int : h <= Peak(b) => h <= Peak(b)'
  BY <1>1
<1>4. ASSUME NEW t \in Int, Between(b, t) PROVE Between(b, t)'
  <2>1. /\ ComputeThreshold(Peak(b)) \in Int /\ ComputeThreshold(Peak(b)') \in Int
        /\ ComputeThreshold(Peak(b)) <= ComputeThreshold(Peak(b)')
    BY <1>1, ThresholdIsMonotone
  <2>2. ComputeThreshold(b) <= t /\ t <= ComputeThreshold(Peak(b))
    BY <1>4 DEF Between
  <2>3. t <= ComputeThreshold(Peak(b)')
    BY <2>1, <2>2
  <2> QED
    BY <2>2, <2>3 DEF Between
<1>5. /\ acct.high <= Peak(b) /\ Between(b, acct.thr)
      /\ sync.pc # "idle" => sync.bal <= Peak(b)
      /\ sync.pc = "write" => sync.row.high <= Peak(b) /\ Between(b, sync.row.thr)
  BY DEF MarksKept
<1>6. ASSUME acct'.high = acct.high, acct'.thr = acct.thr,
             sync'.pc # "idle" => sync'.bal <= Peak(b),
             sync'.pc = "write" => /\ sync'.row.high <= Peak(b)
                                   /\ Between(b, sync'.row.thr)
      PROVE  MarksKept(b)'
  <2>1. acct'.high <= Peak(b)' /\ Between(b, acct.thr)'
    BY <1>2, <1>3, <1>4, <1>5, <1>6
  <2>2. sync'.pc # "idle" => sync'.bal <= Peak(b)'
    BY <1>2, <1>3, <1>6
  <2>3. \A t \in Int : Between(b, t) => ComputeThreshold(b) <= t
                                  /\ t <= ComputeThreshold(Peak(b)')
    BY <1>4 DEF Between
  <2>4. /\ ComputeThreshold(b) <= acct'.thr
        /\ acct'.thr <= ComputeThreshold(Peak(b)')
    BY <1>2, <1>5, <1>6, <2>3
  <2>5. sync'.pc = "write" => /\ sync'.row.high <= Peak(b)'
                              /\ ComputeThreshold(b) <= sync'.row.thr
                              /\ sync'.row.thr <= ComputeThreshold(Peak(b)')
    BY <1>2, <1>3, <1>6, <2>3
  <2> QED
    BY <2>1, <2>2, <2>4, <2>5 DEF MarksKept, Between
<1>7. CASE SyncFetch
  <2>1. acct' = acct /\ sync'.bal = prov.bal /\ sync'.pc = "read"
    BY <1>0, <1>7 DEF SyncFetch, Poll
  <2> QED
    BY <1>1, <1>6, <2>1
<1>8. CASE SyncRead
  <2>1. /\ acct' = acct
        /\ \/ sync'.pc = "idle"
           \/ /\ sync'.pc = "write" /\ sync.pc = "read" /\ sync'.bal = sync.bal
              /\ sync'.row.high = acct.high /\ sync'.row.thr = acct.thr
    BY <1>0, <1>8 DEF SyncRead, IdleSync, Poll
  <2> QED
    BY <1>5, <1>6, <2>1
<1>9. CASE SyncWrite
  <2>1. /\ sync.pc = "write"
        /\ acct'.high = NextHighWater(sync.row.high, sync.bal)
        /\ acct'.thr = NextThreshold(sync.row.thr, sync.row.high, sync.bal)
    BY <1>0, <1>9 DEF SyncWrite, SyncThreshold, AccountRow
  <2>2. /\ sync'.pc # "write"
        /\ sync'.pc # "idle" => sync'.bal = sync.bal
    BY <1>0, <1>9 DEF SyncWrite, IdleSync, Poll
  <2>3. acct'.high <= Peak(b)
    BY <1>1, <1>2, <1>5, <2>1 DEF NextHighWater, Larger
  <2>4. /\ ComputeThreshold(acct'.high) \in Int
        /\ ComputeThreshold(acct'.high) <= ComputeThreshold(Peak(b))
    BY <1>1, <1>2, <2>3, ThresholdIsMonotone
  <2>5. /\ ComputeThreshold(b) <= acct'.thr
        /\ acct'.thr <= ComputeThreshold(Peak(b))
    <3>1. acct'.thr = Larger(sync.row.thr, ComputeThreshold(acct'.high))
      BY <2>1 DEF NextThreshold
    <3>2. /\ ComputeThreshold(b) <= sync.row.thr
          /\ sync.row.thr <= ComputeThreshold(Peak(b))
      BY <1>5, <2>1 DEF Between
    <3>3. ComputeThreshold(b) \in Int /\ ComputeThreshold(Peak(b)) \in Int
      BY <1>1, ThresholdIsMonotone
    <3> QED
      BY <1>2, <2>4, <3>1, <3>2, <3>3 DEF Larger
  <2>6. /\ acct'.high <= Peak(b)'
        /\ sync'.pc # "idle" => sync'.bal <= Peak(b)'
    BY <1>2, <1>3, <1>5, <2>1, <2>2, <2>3
  <2>7. /\ ComputeThreshold(b) <= acct'.thr
        /\ acct'.thr <= ComputeThreshold(Peak(b)')
    <3>1. /\ ComputeThreshold(Peak(b)) \in Int /\ ComputeThreshold(Peak(b)') \in Int
          /\ ComputeThreshold(Peak(b)) <= ComputeThreshold(Peak(b)')
      BY <1>1, ThresholdIsMonotone
    <3> QED
      BY <1>2, <2>5, <3>1
  <2> QED
    BY <2>2, <2>6, <2>7 DEF MarksKept, Between
<1>10. CASE /\ acct'.high = acct.high /\ acct'.thr = acct.thr
            /\ \/ sync' = sync
               \/ sync'.pc = "idle"
               \/ /\ sync.pc # "idle" /\ sync'.pc # "write"
                  /\ sync'.bal = sync.bal
  BY <1>5, <1>6, <1>10
<1> QED
  BY <1>7, <1>8, <1>9, <1>10, MarksMove

LEMMA LocalStep ==
    ASSUME TypeOK, SafetyInv, [Next]_vars,
           NEW b \in Int, MarksKept(b), LocalKept(b)
    PROVE  LocalKept(b)'
<1> SUFFICES ASSUME \A c \in Calls : state'[c] \in Early
             PROVE  acct'.bal <= b
  BY DEF LocalKept
<1>0. acct \in AccountRow /\ sync \in Poll /\ acct.bal \in Int /\ acct'.bal \in Int
  BY NextTyped DEF TypeOK, AccountType, AccountRow
<1>1. \A c \in Calls : state[c] \in Early /\ ~Refunded(c)
  BY RowsStay, EarlyIsUntouched
<1>2. acct.bal <= b /\ Peak(b) = b
  BY <1>1 DEF LocalKept, Peak
<1>3. CASE SyncWrite
  <2>1. acct'.bal = sync.bal /\ sync.pc = "write"
    BY <1>0, <1>3 DEF SyncWrite, AccountRow
  <2> QED
    BY <1>2, <2>1 DEF MarksKept
<1>4. ASSUME NEW w \in Workers, S_Local(w),
             acct'.bal = acct.bal - gross[worker[w].call]
      PROVE  acct'.bal <= b
  <2>1. worker[w].call \in Calls
    BY <1>4, BusyFacts DEF S_Local, At
  <2>2. gross[worker[w].call] \in Int /\ gross[worker[w].call] > 0
    BY <2>1, GrossIsPositive
  <2> QED
    BY <1>0, <1>2, <1>4, <2>2
<1>5. ASSUME NEW o \in Operators, FailLocal(o) PROVE FALSE
  BY <1>1, <1>5, RefundsFailed DEF Early, NoRow
<1> QED
  BY <1>2, <1>3, <1>4, <1>5, CopyMoves

LEMMA RoomStep ==
    ASSUME TypeOK, SafetyInv, [Next]_vars, ~Trade, OneRequest,
           NEW b \in Int, MarksKept(b), LocalKept(b), RoomKept(b)
    PROVE  RoomKept(b)'
<1>0. gross' = gross /\ Room(b) \in Int /\ worker \in [Workers -> Worker]
  BY AmountsStand, RoomIsMonotone, ThresholdIsMonotone
     DEF Room, TypeOK, ProcessType
<1>1. ASSUME NEW w \in Workers, At(w, "v_decide")'
      PROVE  worker'[w].view.limit <= Room(b)
  <2>1. CASE worker'[w] = worker[w]
    BY <1>1, <2>1 DEF RoomKept, At
  <2>2. CASE V_Account(w)
    <3>1. PICK c \in Calls : c = worker[w].call /\ state[c] = "validating"
      BY <2>2, BusyFacts DEF V_Account, BusyInv, WorkerPhase, At
    <3>2. \A k \in Calls : state[k] \in Early /\ ~Refunded(k)
      BY <3>1, OnlyRow, EarlyIsUntouched DEF Early, NoRow
    <3>3. /\ acct.bal \in Int /\ acct.thr \in Int /\ ComputeThreshold(b) \in Int
          /\ acct.bal <= b /\ ComputeThreshold(b) <= acct.thr
      BY <3>2, ThresholdIsMonotone
         DEF LocalKept, MarksKept, Between, TypeOK, AccountType, AccountRow
    <3>4. AccountLimit(acct.bal, acct.thr) <= Room(b)
      BY <3>3, RoomIsMonotone DEF Room
    <3>5. worker'[w].view.limit = AccountLimit(acct.bal, acct.thr)
      BY <1>0, <2>2 DEF V_Account, AccountView, Worker, View
    <3> QED
      BY <3>4, <3>5
  <2> QED
    BY <1>1, <2>1, <2>2, WorkersDecide
<1>2. ASSUME NEW w \in Workers, At(w, "v_approve")'
      PROVE  gross[worker'[w].call] <= Room(b)
  <2>1. CASE worker'[w] = worker[w]
    BY <1>2, <2>1 DEF RoomKept, At
  <2>2. CASE V_Decide(w)
    <3>1. PICK c \in Calls : c = worker[w].call
      BY <2>2, BusyFacts DEF V_Decide, At
    <3>2. /\ worker'[w].call = c /\ Eligible(c, worker[w].view, Cash[c])
          /\ worker[w].view \in View
          /\ worker[w].view.limit <= Room(b)
      BY <1>0, <1>2, <2>2, <3>1 DEF V_Decide, At, Worker, RoomKept
    <3> DEFINE v == worker[w].view
               daily == RemainingDaily(Total(Cash, HeldOn(v.day))) + Cash[c]
               lifetime == RemainingLifetime(Total(Cash, Held)) + Cash[c]
    <3>3. GrossAllowed(gross[c], MaxGross(v.limit, daily, lifetime))
      BY <3>2 DEF Eligible
    <3>4. daily \in Int /\ lifetime \in Int
      <4>1. /\ Total(Cash, HeldOn(v.day)) \in Nat /\ Total(Cash, Held) \in Nat
        BY HeldTotals DEF Held, HeldOn
      <4>2. Cash[c] \in Int
        BY CashTyped, MaxCashAssumption
      <4> QED
        BY <4>1, <4>2, RulesAssumption
           DEF RemainingDaily, RemainingLifetime, NonNegative
    <3>5. gross[c] \in Int /\ v.limit \in Int
      BY <3>2, GrossIsPositive DEF View
    <3> HIDE DEF daily, lifetime
    <3>6. gross[c] <= v.limit
      BY <3>3, <3>4, <3>5, AllowedIsWithin
    <3> QED
      BY <1>0, <3>2, <3>5, <3>6
  <2> QED
    BY <1>2, <2>1, <2>2, WorkersDecide
<1>3. ASSUME NEW c \in Calls, state'[c] = "approved" \/ Taken(c)'
      PROVE  gross[c] <= Room(b)
  <2>1. CASE state[c] = "approved" \/ Taken(c)
    BY <2>1 DEF RoomKept
  <2>2. ASSUME NEW w \in Workers, V_Approve(w), worker[w].call = c
        PROVE  gross[c] <= Room(b)
    BY <2>2 DEF V_Approve, RoomKept
  <2>3. ASSUME NEW w \in Workers, S_Deduct(w), worker[w].call = c
        PROVE  gross[c] <= Room(b)
    BY <2>3, DeductsApproved DEF RoomKept
  <2>4. ASSUME Taken(c)', ~Taken(c)
        PROVE  \E w \in Workers : S_Deduct(w) /\ worker[w].call = c
    <3>1. prov \in ProviderAccount
      BY DEF TypeOK, AccountType
    <3>2. ASSUME NEW k \in Calls,
                 prov' = Applied(<<"reverse", k>>, gross[k])
          PROVE  FALSE
      BY <2>4, <3>2, AppliedEffect DEF Taken, TypeOK
    <3>3. ASSUME NEW k \in Calls,
                 prov' = Applied(<<"deduct", k>>, -gross[k])
          PROVE  k = c
      BY <2>4, <3>3, AppliedEffect DEF Taken, TypeOK
    <3>4. prov'.done # prov.done
      BY <2>4 DEF Taken
    <3> QED
      BY <3>2, <3>3, <3>4, BalanceMoves, DeductsApproved, RefundsFailed
  <2> QED
    BY <1>3, <2>1, <2>2, <2>3, <2>4, RowsStay
<1> QED
  BY <1>0, <1>1, <1>2, <1>3 DEF RoomKept

\* While nothing but one request moves the balance, no withdrawal takes the
\* provider's balance into the buffer or down to the threshold, however the
\* poller, the workers and the operators of that request overlap and die
\* (computeCapacity, submitPayout).  The account starts above its buffer; it
\* has a drawdown to lose and a payout leaves some room above the threshold.
THEOREM BufferIsKept ==
    ASSUME ~SlowWorkers, Drawdown > 0, MinRoom > 0,
           \A b \in FirstBalances : b >= StartBalance + Buffer
    PROVE  Spec => []BufferKept
<1> DEFINE Inv == trades = 0 /\ OneRequest => \E b \in FirstBalances : Kept(b)
<1>0. FirstBalances \subseteq Int
  BY PayoutAssumption
<1>1. Init => Inv
  <2> SUFFICES ASSUME Init PROVE \E b \in FirstBalances : Kept(b)
    OBVIOUS
  <2>0. PICK b \in FirstBalances :
           /\ prov = [bal |-> b, seq |-> 1, flat |-> TRUE, done |-> {}]
           /\ acct = [bal |-> b, high |-> b, thr |-> ComputeThreshold(b),
                      day |-> 1, open |-> b, wd |-> 0, seq |-> 1,
                      stale |-> FALSE, flat |-> TRUE, status |-> "ACTIVE",
                      paused |-> {}]
    BY Zenon DEF Init
  <2>1. b \in Int /\ ComputeThreshold(b) \in Int
    BY <1>0, ThresholdIsMonotone
  <2>2. \A c \in Calls : ~Taken(c) /\ ~Refunded(c) /\ state[c] # "approved"
    BY <2>0 DEF Init, Taken, Refunded, NoRow
  <2>3. sync.pc = "idle" /\ \A w \in Workers : worker[w].pc = "idle"
    BY DEF Init, IdleSync, IdleWorker
  <2> QED
    BY <2>0, <2>1, <2>2, <2>3 DEF Kept, ProviderKept, MarksKept, LocalKept, RoomKept,
       Peak, Between, At
<1>2. TypeOK /\ SafetyInv /\ Inv /\ [Next]_vars => Inv'
  <2> SUFFICES ASSUME TypeOK, SafetyInv, Inv, [Next]_vars,
                      trades' = 0, OneRequest'
               PROVE  \E b \in FirstBalances : Kept(b)'
    OBVIOUS
  <2>1. ~Trade
    <3>1. trades \in Nat /\ trades + 1 # 0
      BY PayoutAssumption DEF TypeOK, AccountType
    <3> QED
      BY <3>1 DEF Trade
  <2>2. trades = 0
    BY <2>1 DEF Next, SyncStep, SyncFetch, SyncRead, SyncWrite, EnforceDaily,
       EnforceTrailing, GoStale, NewSession, RequestRead, RequestValidate,
       RequestReserve, SendCash, RailOutcome, Recover, PaidRead, UnknownRead,
       NotPaidRead, OperatorStep, PaidMark, UnknownMark, FailMark,
       OperatorCrash, PaidPost, CloseRead, CloseWrite, FailCredit, FailLocal,
       Claim, WorkerStep, WorkerCrash, V_Read, V_Mark, V_Account, V_Decide,
       V_Park, V_Approve, V_Accrue, V_Enqueue, S_Read, S_Deduct, S_Park,
       S_Mark, S_Local, Finish, vars, acctVars
  <2>3. OneRequest
    BY RowsStay DEF OneRequest
  <2>4. PICK b \in FirstBalances : Kept(b)
    BY <2>2, <2>3
  <2>5. b \in Int
    BY <1>0
  <2>6. ProviderKept(b)'
    BY <2>1, <2>3, <2>4, <2>5, ProviderStep DEF Kept
  <2>7. MarksKept(b)'
    BY <2>1, <2>3, <2>4, <2>5, MarksStep DEF Kept
  <2>8. LocalKept(b)'
    BY <2>4, <2>5, LocalStep DEF Kept
  <2>9. RoomKept(b)'
    BY <2>1, <2>3, <2>4, <2>5, RoomStep DEF Kept
  <2> QED
    BY <2>6, <2>7, <2>8, <2>9 DEF Kept
<1>3. TypeOK /\ Inv => BufferKept
  <2> SUFFICES ASSUME TypeOK, NEW b \in FirstBalances, Kept(b)
               PROVE  prov.bal >= StartBalance + Buffer /\ prov.bal > acct.thr
    BY DEF BufferKept
  <2>0. b \in Int /\ prov.bal \in Int /\ acct.thr \in Int /\ b >= StartBalance + Buffer
    BY <1>0 DEF TypeOK, AccountType, ProviderAccount, AccountRow
  <2>1. /\ StartBalance \in Nat /\ Buffer \in Nat /\ MinRoom \in Nat
        /\ Drawdown \in Nat
    BY RulesAssumption, RiskAssumption
  <2>2. \A x \in Int : ComputeThreshold(x) \in Int /\ ComputeThreshold(x) < x
    BY <2>1, ThresholdIsMonotone
  <2>3. ProviderKept(b) /\ acct.thr <= ComputeThreshold(Peak(b))
    BY DEF Kept, MarksKept, Between
  <2>4. CASE \E c \in Calls : Refunded(c)
    <3>1. Peak(b) = prov.bal /\ prov.bal >= b
      BY <2>3, <2>4 DEF Peak, ProviderKept
    <3> QED
      BY <2>0, <2>1, <2>2, <2>3, <3>1
  <2>5. CASE \A c \in Calls : ~Refunded(c) /\ ~Taken(c)
    <3>1. Peak(b) = b /\ prov.bal = b
      BY <2>3, <2>5 DEF Peak, ProviderKept
    <3> QED
      BY <2>0, <2>1, <2>2, <2>3, <3>1
  <2>6. ASSUME \A c \in Calls : ~Refunded(c), NEW c \in Calls, Taken(c)
        PROVE  prov.bal >= StartBalance + Buffer /\ prov.bal > acct.thr
    <3>1. /\ Peak(b) = b /\ prov.bal = b - gross[c] /\ gross[c] <= Room(b)
          /\ gross[c] \in Int /\ gross[c] > 0
      BY <2>3, <2>6, GrossIsPositive DEF Peak, ProviderKept, Kept, RoomKept
    <3>2. /\ prov.bal >= StartBalance + Buffer
          /\ prov.bal >= ComputeThreshold(b) + MinRoom
      BY <2>0, <3>1, RoomKeepsBuffer
    <3> QED
      BY <2>0, <2>1, <2>2, <2>3, <3>1, <3>2
  <2> QED
    BY <2>4, <2>5, <2>6
<1> HIDE DEF Inv
<1> QED
  BY <1>1, <1>2, <1>3, PayoutTyped, SafetyHolds, PTL DEF Spec

=============================================================================
