---------------------------- MODULE RefereeProofs ----------------------------
(***************************************************************************)
(* Proofs about the referee for any number of workers and swaps, any push  *)
(* budget and any number of faults.                                        *)
(*                                                                         *)
(* The argument.  A call is at some step of its script, and the step's     *)
(* label fixes the phase its local SwapState is in (Fits); consecutive     *)
(* steps are Linked so that this carries over from one await to the next,  *)
(* whatever other calls do to the stores meanwhile.  The stores themselves *)
(* only Evolve one way: rows and log entries are not lost, a swap that has *)
(* a log entry gets no new sessions, spent webcash stays spent.            *)
(* When calls on one swap do not overlap, the stored row moves in step     *)
(* with the call (SerialInv), and a row ends once and is closed one way.   *)
(***************************************************************************)
EXTENDS RefereeSafety, FiniteSetTheorems, TLAPS

(* Scripts *)

\* The steps scripts are made of.
Shaped(e) ==
    /\ e.do = "close" => e.phase \in Terminal
    /\ e.do \in {"mint", "htlc-get", "htlc-put"} => e.phase = "init"
    /\ e.do = "sign" => e.phase \in {"settled", "refunded"}
    /\ e.do = "check" => e.phase \in {"pre-checked", "insert-pushed"}

ScriptSteps == {e \in Steps : Shaped(e)}

\* A step that precedes the log entry of its phase.
Precedes(e) ==
    \/ e.do \in {"audit", "verify"}
    \/ e.do = "check" /\ e.phase = "pre-checked"
    \/ e.do = "push" /\ e.phase \in {"insert-pushed", "refunded"}
    \/ e.do = "sign" /\ e.phase = "refunded"

\* The states from which a call may enter phase p.
MayEnter(st, p) ==
    \/ p = "init" /\ st.phase = "new"
    \/ p = "zkps-verified" /\ st.phase = "init"
    \/ p = "pre-checked" /\ st.phase = "zkps-verified"
    \/ p = "insert-pushed" /\ st.phase = "pre-checked"
    \/ p = "insert-pushed" /\ st.phase = "insert-pushed" /\ st.attempts < Retry
    \/ p = "settled" /\ st.phase = "insert-pushed"
    \/ p = "aborted" /\ st.phase = "insert-pushed" /\ st.attempts >= Retry
    \/ p = "invalidated" /\ st.phase = "aborted"
    \/ p = "refunded" /\ st.phase = "invalidated"
    \/ p = "canceled" /\ st.phase \in Early \union {"insert-pushed"}

\* The state a call is in when it is about to take step e.
Fits(st, e) == IF Precedes(e) THEN MayEnter(st, e.phase) ELSE st.phase = e.phase

\* A step taken once the row of its phase is stored; the others come before.
Stored(e) ==
    ~(Precedes(e) \/ e.do \in {"get", "put", "sign"} \/ (e.do = "push" /\ e.phase = "settled"))

\* Step f may follow step e.
Linked(e, f) ==
    /\ \/ /\ e.phase = f.phase
          /\ e.do = "audit" => ~Precedes(f)
          /\ e.do # "audit" => (Precedes(e) <=> Precedes(f))
       \/ /\ ~Precedes(e) /\ Precedes(f)
          /\ <<e.phase, f.phase>> \in {<<"init", "zkps-verified">>, <<"zkps-verified", "pre-checked">>,
                                       <<"pre-checked", "insert-pushed">>}
    /\ IF e.phase = f.phase THEN Stored(f) <=> (Stored(e) \/ e.do = "put")
                            ELSE Stored(e) \/ e.do = "put"
    /\ f.do = "sign" => e.do = "audit"
    /\ f # Step("audit", "init")
    /\ f.do = "mint" => e.do = "put"
    /\ f.do # "htlc-get"
    /\ f.do = "htlc-put" => e.do = "htlc-get"
    /\ f = Step("close", "canceled") => e.do = "discard"

Script(todo) ==
    /\ todo \in Seq(ScriptSteps)
    /\ \A i \in 1..(Len(todo) - 1) : Linked(todo[i], todo[i + 1])

(* The invariant of all log backends, over explicit stores: R rows, A logs, *)
(* S live sessions, G signatures, L webcash legs, P pushes, K acknowledged  *)
(* cancels.                                                                 *)

CallOk(c, R, A, S, L) ==
    /\ c \in CallType
    /\ c.todo = <<>> => c = Idle
    /\ c.todo # <<>> =>
          /\ Script(c.todo)
          /\ Fits(c.st, Head(c.todo))
          /\ A[c.swap] # {} \/ Head(c.todo) = Step("audit", "init")
          /\ Head(c.todo).do \in {"mint", "htlc-get", "htlc-put"} => R[c.swap] # Absent
          /\ (\E i \in DOMAIN c.todo : c.todo[i].phase = "settled") => L[c.swap] = "spent"
          /\ Head(c.todo) = Step("close", "canceled") => S[c.swap] = {}

SwapOk(s, R, A, S, G, L, P, K) ==
    /\ R[s] # Absent => A[s] # {}
    /\ \A k \in Sessions : /\ G[s][k] <= 1
                           /\ k \in S[s] => G[s][k] = 0
                           /\ G[s][k] > 0 => A[s] # {}
    /\ G[s]["settle"] > 0 \/ "release-settle" \in P[s] => L[s] = "spent"
    /\ s \in K => S[s] = {} /\ A[s] # {}

SwapInv ==
    /\ TypeOK
    /\ \A w \in Workers : CallOk(calls[w], rows, audit, sessions, leg)
    /\ \A s \in Swaps : SwapOk(s, rows, audit, sessions, signed, leg, pushes, acked)

(* The invariant of the logs that keep what is appended. *)

\* The state is covered by the log, and its phase tells how far its pushes got.
TipOk(st, log) ==
    /\ st.tip \in log /\ st.tip # <<>>
    /\ Last(st.tip) = st.phase
    /\ st.attempts = Pushed(st.tip)
    /\ st.attempts <= Budget
    /\ st.phase \in Early => st.attempts = 0
    /\ st.phase = "insert-pushed" => st.attempts >= 1
    /\ st.phase \in {"aborted", "invalidated"} => st.attempts >= Budget
    /\ st.phase = "invalidated" => Len(st.tip) > 1 /\ st.tip[Len(st.tip) - 1] = "aborted"

TipCall(c, A) ==
    c.todo # <<>> =>
        /\ IF c.st.phase = "new" THEN c.st = NewState ELSE TipOk(c.st, A[c.swap])
        /\ Head(c.todo).do = "htlc-put" => TipOk(StateOf(c.keep), A[c.swap])

Exhausted(tip) ==
    /\ Last(tip) = "invalidated" /\ tip[Len(tip) - 1] = "aborted"
    /\ Pushed(tip) >= Budget

Chained(tip, log) ==
    \/ tip = <<"init">>
    \/ Front(tip) \in log /\ MayFollow(Last(Front(tip)), Last(tip))

TipSwap(s, R, A, G) ==
    /\ R[s] # Absent => TipOk(StateOf(R[s]), A[s])
    /\ \A tip \in A[s] : Chained(tip, A[s])
    /\ G[s]["refund"] > 0 => \E tip \in A[s] : Exhausted(tip)

TipInv ==
    /\ \A w \in Workers : TipCall(calls[w], audit)
    /\ \A s \in Swaps : TipSwap(s, rows, audit, signed)

-----------------------------------------------------------------------------
(* The scripts are scripts *)

LEMMA Backend == Swaps # {} /\ Retry \in Nat /\ MaxFaults \in Nat
BY RefereeAssumption

LEMMA ShapedSeq ==
    ASSUME NEW s \in Seq(Steps), \A i \in DOMAIN s : Shaped(s[i])
    PROVE  s \in Seq(ScriptSteps)
<1>1. \A i \in DOMAIN s : s[i] \in ScriptSteps
  BY DEF ScriptSteps
<1> QED BY <1>1

\* What a script starts with, and that only the settle script has settle steps.
StartsWith(todo, e) == Script(todo) /\ todo # <<>> /\ Head(todo) = e

Unsettling(todo) == \A i \in DOMAIN todo : todo[i].phase # "settled"

LEMMA StartScriptOk ==
    /\ StartsWith(StartScript, Step("audit", "init"))
    /\ Unsettling(StartScript)
<1> DEFINE s == StartScript
<1>1. /\ s[1] = Step("audit", "init") /\ s[2] = Step("put", "init") /\ s[3] = Step("mint", "init")
      /\ s[4] = Step("verify", "zkps-verified") /\ s[5] = Step("audit", "zkps-verified")
      /\ s[6] = Step("get", "zkps-verified") /\ s[7] = Step("put", "zkps-verified")
      /\ s[8] = Step("check", "pre-checked") /\ s[9] = Step("audit", "pre-checked")
      /\ s[10] = Step("get", "pre-checked") /\ s[11] = Step("put", "pre-checked")
      /\ s[12] = Step("push", "insert-pushed") /\ s[13] = Step("audit", "insert-pushed")
      /\ s[14] = Step("get", "insert-pushed") /\ s[15] = Step("put", "insert-pushed")
      /\ Len(s) = 15 /\ DOMAIN s = 1..15 /\ Head(s) = s[1] /\ s # <<>>
  BY DEF StartScript, Persist
<1>2. s \in Seq(Steps)
  BY DEF StartScript, Persist, Steps, Step, StepKinds, Phases, Early
<1> HIDE DEF s
<1>3. \A i \in 1..15 : Shaped(s[i]) /\ s[i].phase # "settled"
  BY <1>1 DEF Shaped, Step
<1>4. s \in Seq(ScriptSteps)
  BY <1>1, <1>2, <1>3, ShapedSeq
<1>5. \A i \in 1..14 : Linked(s[i], s[i + 1])
  BY <1>1 DEF Linked, Stored, Precedes, Step
<1> QED BY <1>1, <1>3, <1>4, <1>5 DEF s, StartsWith, Script, Unsettling

LEMMA SettleScriptOk == StartsWith(SettleScript, Step("audit", "settled"))
<1> DEFINE s == SettleScript
<1>1. /\ s[1] = Step("audit", "settled") /\ s[2] = Step("sign", "settled")
      /\ s[3] = Step("push", "settled") /\ s[4] = Step("get", "settled")
      /\ s[5] = Step("put", "settled") /\ s[6] = Step("discard", "settled")
      /\ s[7] = Step("close", "settled")
      /\ Len(s) = 7 /\ DOMAIN s = 1..7 /\ Head(s) = s[1] /\ s # <<>>
  BY DEF SettleScript, Persist
<1>2. s \in Seq(Steps)
  BY DEF SettleScript, Persist, Steps, Step, StepKinds, Phases, Terminal
<1> HIDE DEF s
<1>3. \A i \in 1..7 : Shaped(s[i])
  BY <1>1 DEF Shaped, Step, Terminal
<1>4. s \in Seq(ScriptSteps)
  BY <1>1, <1>2, <1>3, ShapedSeq
<1>5. \A i \in 1..6 : Linked(s[i], s[i + 1])
  BY <1>1 DEF Linked, Stored, Precedes, Step
<1> QED BY <1>1, <1>3, <1>4, <1>5 DEF s, StartsWith, Script

LEMMA RetryScriptOk ==
    StartsWith(RetryScript, Step("push", "insert-pushed")) /\ Unsettling(RetryScript)
<1> DEFINE s == RetryScript
<1>1. /\ s[1] = Step("push", "insert-pushed") /\ s[2] = Step("audit", "insert-pushed")
      /\ s[3] = Step("get", "insert-pushed") /\ s[4] = Step("put", "insert-pushed")
      /\ Len(s) = 4 /\ DOMAIN s = 1..4 /\ Head(s) = s[1] /\ s # <<>>
  BY DEF RetryScript, Persist
<1>2. s \in Seq(Steps)
  BY DEF RetryScript, Persist, Steps, Step, StepKinds, Phases
<1> HIDE DEF s
<1>3. \A i \in 1..4 : Shaped(s[i]) /\ s[i].phase # "settled"
  BY <1>1 DEF Shaped, Step
<1>4. s \in Seq(ScriptSteps)
  BY <1>1, <1>2, <1>3, ShapedSeq
<1>5. \A i \in 1..3 : Linked(s[i], s[i + 1])
  BY <1>1 DEF Linked, Stored, Precedes, Step
<1> QED BY <1>1, <1>3, <1>4, <1>5 DEF s, StartsWith, Script, Unsettling

LEMMA AbortScriptOk ==
    StartsWith(AbortScript, Step("audit", "aborted")) /\ Unsettling(AbortScript)
<1> DEFINE s == AbortScript
<1>1. /\ s[1] = Step("audit", "aborted") /\ s[2] = Step("get", "aborted")
      /\ s[3] = Step("put", "aborted") /\ s[4] = Step("push", "aborted")
      /\ Len(s) = 4 /\ DOMAIN s = 1..4 /\ Head(s) = s[1] /\ s # <<>>
  BY DEF AbortScript, Persist
<1>2. s \in Seq(Steps)
  BY DEF AbortScript, Persist, Steps, Step, StepKinds, Phases
<1> HIDE DEF s
<1>3. \A i \in 1..4 : Shaped(s[i]) /\ s[i].phase # "settled"
  BY <1>1 DEF Shaped, Step
<1>4. s \in Seq(ScriptSteps)
  BY <1>1, <1>2, <1>3, ShapedSeq
<1>5. \A i \in 1..3 : Linked(s[i], s[i + 1])
  BY <1>1 DEF Linked, Stored, Precedes, Step
<1> QED BY <1>1, <1>3, <1>4, <1>5 DEF s, StartsWith, Script, Unsettling

LEMMA InvalidateScriptOk ==
    StartsWith(InvalidateScript, Step("audit", "invalidated")) /\ Unsettling(InvalidateScript)
<1> DEFINE s == InvalidateScript
<1>1. /\ s[1] = Step("audit", "invalidated") /\ s[2] = Step("get", "invalidated")
      /\ s[3] = Step("put", "invalidated")
      /\ Len(s) = 3 /\ DOMAIN s = 1..3 /\ Head(s) = s[1] /\ s # <<>>
  BY DEF InvalidateScript, Persist
<1>2. s \in Seq(Steps)
  BY DEF InvalidateScript, Persist, Steps, Step, StepKinds, Phases
<1> HIDE DEF s
<1>3. \A i \in 1..3 : Shaped(s[i]) /\ s[i].phase # "settled"
  BY <1>1 DEF Shaped, Step
<1>4. s \in Seq(ScriptSteps)
  BY <1>1, <1>2, <1>3, ShapedSeq
<1>5. \A i \in 1..2 : Linked(s[i], s[i + 1])
  BY <1>1 DEF Linked, Stored, Precedes, Step
<1> QED BY <1>1, <1>3, <1>4, <1>5 DEF s, StartsWith, Script, Unsettling

LEMMA RefundScriptOk ==
    StartsWith(RefundScript, Step("sign", "refunded")) /\ Unsettling(RefundScript)
<1> DEFINE s == RefundScript
<1>1. /\ s[1] = Step("sign", "refunded") /\ s[2] = Step("push", "refunded")
      /\ s[3] = Step("audit", "refunded") /\ s[4] = Step("get", "refunded")
      /\ s[5] = Step("put", "refunded") /\ s[6] = Step("discard", "refunded")
      /\ s[7] = Step("close", "refunded")
      /\ Len(s) = 7 /\ DOMAIN s = 1..7 /\ Head(s) = s[1] /\ s # <<>>
  BY DEF RefundScript, Persist
<1>2. s \in Seq(Steps)
  BY DEF RefundScript, Persist, Steps, Step, StepKinds, Phases, Terminal
<1> HIDE DEF s
<1>3. \A i \in 1..7 : Shaped(s[i]) /\ s[i].phase # "settled"
  BY <1>1 DEF Shaped, Step, Terminal
<1>4. s \in Seq(ScriptSteps)
  BY <1>1, <1>2, <1>3, ShapedSeq
<1>5. \A i \in 1..6 : Linked(s[i], s[i + 1])
  BY <1>1 DEF Linked, Stored, Precedes, Step
<1> QED BY <1>1, <1>3, <1>4, <1>5 DEF s, StartsWith, Script, Unsettling

LEMMA CancelScriptOk ==
    ASSUME NEW n \in Nat
    PROVE  StartsWith(CancelScript(n), Step("audit", "canceled")) /\ Unsettling(CancelScript(n))
<1> DEFINE s == CancelScript(n)
<1>1. CASE n > 0
  <2>1. /\ s[1] = Step("audit", "canceled") /\ s[2] = Step("put", "canceled")
        /\ s[3] = Step("push", "canceled") /\ s[4] = Step("discard", "canceled")
        /\ s[5] = Step("close", "canceled")
        /\ Len(s) = 5 /\ DOMAIN s = 1..5 /\ Head(s) = s[1] /\ s # <<>>
    BY <1>1 DEF CancelScript
  <2>2. s \in Seq(Steps)
    BY <1>1 DEF CancelScript, Steps, Step, StepKinds, Phases, Terminal
  <2> HIDE DEF s
  <2>3. \A i \in 1..5 : Shaped(s[i]) /\ s[i].phase # "settled"
    BY <2>1 DEF Shaped, Step, Terminal
  <2>4. s \in Seq(ScriptSteps)
    BY <2>1, <2>2, <2>3, ShapedSeq
  <2>5. \A i \in 1..4 : Linked(s[i], s[i + 1])
    BY <2>1 DEF Linked, Stored, Precedes, Step
  <2> QED BY <2>1, <2>3, <2>4, <2>5 DEF s, StartsWith, Script, Unsettling
<1>2. CASE n = 0
  <2>1. /\ s[1] = Step("audit", "canceled") /\ s[2] = Step("put", "canceled")
        /\ s[3] = Step("discard", "canceled") /\ s[4] = Step("close", "canceled")
        /\ Len(s) = 4 /\ DOMAIN s = 1..4 /\ Head(s) = s[1] /\ s # <<>>
    BY <1>2 DEF CancelScript
  <2>2. s \in Seq(Steps)
    BY <1>2 DEF CancelScript, Steps, Step, StepKinds, Phases, Terminal
  <2> HIDE DEF s
  <2>3. \A i \in 1..4 : Shaped(s[i]) /\ s[i].phase # "settled"
    BY <2>1 DEF Shaped, Step, Terminal
  <2>4. s \in Seq(ScriptSteps)
    BY <2>1, <2>2, <2>3, ShapedSeq
  <2>5. \A i \in 1..3 : Linked(s[i], s[i + 1])
    BY <2>1 DEF Linked, Stored, Precedes, Step
  <2> QED BY <2>1, <2>3, <2>4, <2>5 DEF s, StartsWith, Script, Unsettling
<1> QED BY <1>1, <1>2

-----------------------------------------------------------------------------
(* From one await to the next *)

LEMMA TailOf ==
    ASSUME NEW X, NEW q \in Seq(X), q # <<>>
    PROVE  /\ Len(q) \in Nat /\ Len(q) >= 1 /\ Head(q) = q[1] /\ Head(q) \in X
           /\ Tail(q) \in Seq(X) /\ Len(Tail(q)) = Len(q) - 1
           /\ \A i \in 1..(Len(q) - 1) : Tail(q)[i] = q[i + 1]
OBVIOUS

LEMMA NotOne == \A m, n \in Nat : m >= 1 /\ m = n - 1 => n # 1
OBVIOUS

\* The rest of a script is a script, whose first step is linked to the one done.
LEMMA TailScript ==
    ASSUME NEW todo, Script(todo), todo # <<>>
    PROVE  /\ Head(todo) \in ScriptSteps /\ Head(todo) = todo[1]
           /\ Tail(todo) \in Seq(ScriptSteps)
           /\ Len(todo) # 1 => /\ Tail(todo) # <<>> /\ Script(Tail(todo))
                               /\ Linked(Head(todo), Head(Tail(todo)))
                               /\ Head(Tail(todo)) = todo[2]
           /\ \A i \in DOMAIN Tail(todo) : i + 1 \in DOMAIN todo /\ Tail(todo)[i] = todo[i + 1]
<1>1. todo \in Seq(ScriptSteps) /\ Len(todo) \in Nat /\ Len(todo) >= 1
  BY DEF Script
<1>2. /\ Head(todo) \in ScriptSteps /\ Head(todo) = todo[1] /\ Tail(todo) \in Seq(ScriptSteps)
      /\ Len(Tail(todo)) = Len(todo) - 1
      /\ \A i \in 1..(Len(todo) - 1) : Tail(todo)[i] = todo[i + 1]
  BY <1>1
<1>3. \A i \in DOMAIN Tail(todo) : i + 1 \in DOMAIN todo /\ Tail(todo)[i] = todo[i + 1]
  BY <1>1, <1>2
<1>5. ASSUME Len(todo) # 1
      PROVE  /\ Tail(todo) # <<>> /\ Script(Tail(todo))
             /\ Linked(Head(todo), Head(Tail(todo)))
             /\ Head(Tail(todo)) = todo[2]
  <2>0. 1 \in 1..(Len(todo) - 1) /\ 1 + 1 = 2
    <3>1. ASSUME NEW n \in Nat, n >= 1, n # 1 PROVE 1 \in 1..(n - 1) /\ 1 + 1 = 2
      BY <3>1
    <3> QED BY <1>1, <1>5, <3>1
  <2>1. Len(Tail(todo)) >= 1 /\ Tail(todo) # <<>> /\ Head(Tail(todo)) = todo[2]
    <3> DEFINE t == Tail(todo)
    <3>1. t \in Seq(ScriptSteps) /\ Len(t) >= 1
      BY <1>1, <1>2, <1>5
    <3>2. t[1] = todo[2]
      BY <1>2, <2>0
    <3> HIDE DEF t
    <3>3. t # <<>> /\ Head(t) = t[1]
      BY <3>1
    <3> QED BY <3>1, <3>2, <3>3 DEF t
  <2>2. Linked(todo[1], todo[2])
    BY <2>0 DEF Script
  <2>3. ASSUME NEW i \in 1..(Len(Tail(todo)) - 1)
        PROVE  Linked(Tail(todo)[i], Tail(todo)[i + 1])
    <3>1. /\ i \in 1..(Len(todo) - 1) /\ i + 1 \in 1..(Len(todo) - 1)
      BY <1>1, <1>2
    <3>2. Linked(todo[i + 1], todo[(i + 1) + 1])
      BY <3>1 DEF Script
    <3> QED BY <1>2, <3>1, <3>2
  <2> QED BY <1>2, <2>1, <2>2, <2>3 DEF Script
<1> QED BY <1>2, <1>3, <1>5

\* The state a call is in after the step e.
Done(st, e) == IF e.do = "audit" THEN Advanced(st, e.phase) ELSE st

LEMMA FitsOn ==
    ASSUME NEW st, NEW e, NEW f, Fits(st, e), Linked(e, f)
    PROVE  Fits(Done(st, e), f)
<1>1. CASE e.do = "audit"
  <2>1. Done(st, e).phase = e.phase /\ Precedes(e)
    BY <1>1 DEF Done, Advanced, Precedes
  <2> QED BY <1>1, <2>1 DEF Linked, Fits
<1>2. CASE e.do # "audit"
  <2>1. Done(st, e) = st
    BY <1>2 DEF Done
  <2>2. CASE e.phase = f.phase
    <3>1. Precedes(e) <=> Precedes(f)
      BY <1>2, <2>2 DEF Linked, Precedes
    <3> QED BY <2>1, <2>2, <3>1 DEF Fits
  <2>3. CASE e.phase # f.phase
    BY <2>1, <2>3 DEF Linked, Fits, MayEnter
  <2> QED BY <2>2, <2>3
<1> QED BY <1>1, <1>2

\* The stores evolve one way.
Evolves(R, A, S, L, R2, A2, S2, L2) ==
    \A s \in Swaps :
        /\ R[s] # Absent => R2[s] # Absent
        /\ A[s] # {} => A2[s] # {}
        /\ A[s] # {} /\ S[s] = {} => S2[s] = {}
        /\ L[s] = "spent" => L2[s] = "spent"

\* So a call that rests stays in order.
LEMMA CallRests ==
    ASSUME NEW R, NEW A, NEW S, NEW L, NEW R2, NEW A2, NEW S2, NEW L2,
           Evolves(R, A, S, L, R2, A2, S2, L2), NEW c, CallOk(c, R, A, S, L)
    PROVE  CallOk(c, R2, A2, S2, L2)
<1>1. c \in CallType /\ (c.todo = <<>> => c = Idle) /\ c.swap \in Swaps
  BY DEF CallOk, CallType
<1>2. CASE c.todo # <<>>
  <2>1. Step("close", "canceled") # Step("audit", "init")
    BY DEF Step
  <2>2. Head(c.todo) = Step("close", "canceled") => S2[c.swap] = {}
    BY <1>1, <1>2, <2>1 DEF CallOk, Evolves
  <2>3. A2[c.swap] # {} \/ Head(c.todo) = Step("audit", "init")
    BY <1>1, <1>2 DEF CallOk, Evolves
  <2>4. /\ Head(c.todo).do \in {"mint", "htlc-get", "htlc-put"} => R2[c.swap] # Absent
        /\ (\E i \in DOMAIN c.todo : c.todo[i].phase = "settled") => L2[c.swap] = "spent"
    BY <1>1, <1>2 DEF CallOk, Evolves
  <2>5. Script(c.todo) /\ Fits(c.st, Head(c.todo))
    BY <1>2 DEF CallOk
  <2> QED BY <1>1, <1>2, <2>2, <2>3, <2>4, <2>5 DEF CallOk
<1>3. CASE c.todo = <<>>
  BY <1>1, <1>3 DEF CallOk
<1> QED BY <1>2, <1>3

LEMMA IdleIsCall == Idle \in CallType /\ Idle.todo = <<>>
<1>1. Idle.swap \in Swaps
  BY Backend DEF Idle
<1>2. NewState \in SwapState /\ NoRow \in Row
  BY DEF NewState, SwapState, NoRow, RowOf, Row, Phases, Early, Parties
<1>3. <<>> \in Seq(Steps)
  OBVIOUS
<1> QED BY <1>1, <1>2, <1>3 DEF Idle, CallType

LEMMA IdleOk ==
    ASSUME NEW R, NEW A, NEW S, NEW L
    PROVE  CallOk(Idle, R, A, S, L)
BY IdleIsCall DEF CallOk

\* And a call that takes its step is in order after it.
LEMMA CallGoes ==
    ASSUME NEW R, NEW A, NEW S, NEW L, NEW R2, NEW A2, NEW S2, NEW L2,
           Evolves(R, A, S, L, R2, A2, S2, L2), NEW c, CallOk(c, R, A, S, L), c.todo # <<>>,
           NEW d \in CallType, d.todo = c.todo, d.swap = c.swap,
           d.st = Done(c.st, Head(c.todo)),
           A2[c.swap] # {},
           Head(c.todo).do = "put" => R2[c.swap] # Absent,
           Head(c.todo) = Step("discard", "canceled") => S2[c.swap] = {}
    PROVE  CallOk(After(d), R2, A2, S2, L2)
<1>1. Script(c.todo) /\ Fits(c.st, Head(c.todo)) /\ c.swap \in Swaps
  BY DEF CallOk, CallType
<1>2. CASE Len(d.todo) = 1
  BY <1>2, IdleOk DEF After
<1>3. CASE Len(d.todo) # 1
  <2> DEFINE e == [d EXCEPT !.todo = Tail(d.todo)]
             h == Head(c.todo)
             f == Head(Tail(c.todo))
  <2>1. After(d) = e
    BY <1>3 DEF After
  <2>2. /\ Tail(c.todo) # <<>> /\ Script(Tail(c.todo)) /\ Linked(h, f)
        /\ Tail(c.todo) \in Seq(ScriptSteps)
        /\ \A i \in DOMAIN Tail(c.todo) : i + 1 \in DOMAIN c.todo /\ Tail(c.todo)[i] = c.todo[i + 1]
    BY <1>1, <1>3, TailScript
  <2>3. Tail(c.todo) \in Seq(Steps)
    BY <2>2 DEF ScriptSteps
  <2>4. e \in CallType /\ e.todo = Tail(c.todo) /\ e.swap = c.swap /\ e.st = Done(c.st, h)
    BY <2>3 DEF CallType
  <2> HIDE DEF e
  <2>5. Fits(e.st, f)
    BY <1>1, <2>2, <2>4, FitsOn
  <2>6. f.do \in {"mint", "htlc-get", "htlc-put"} => R2[c.swap] # Absent
    BY <1>1, <2>2 DEF Linked, CallOk, Evolves
  <2>7. (\E i \in DOMAIN e.todo : e.todo[i].phase = "settled") => L2[c.swap] = "spent"
    BY <1>1, <2>2, <2>4 DEF CallOk, Evolves
  <2>8. f = Step("close", "canceled") => S2[c.swap] = {}
    <3> SUFFICES ASSUME f = Step("close", "canceled") PROVE h = Step("discard", "canceled")
      OBVIOUS
    <3>1. h.do = "discard" /\ f.do = "close" /\ f.phase = "canceled"
      BY <2>2 DEF Linked, Step
    <3>2. h.phase = "canceled"
      BY <2>2, <3>1 DEF Linked, Precedes
    <3>3. h \in Steps
      BY <1>1, TailScript DEF ScriptSteps
    <3> HIDE DEF h
    <3> QED BY <3>1, <3>2, <3>3 DEF Steps, Step
  <2> QED BY <2>1, <2>2, <2>4, <2>5, <2>6, <2>7, <2>8 DEF CallOk
<1> QED BY <1>2, <1>3

-----------------------------------------------------------------------------
(* Steps in general *)

StoresTyped ==
    /\ rows \in [Swaps -> Row \union {Absent}]
    /\ audit \in [Swaps -> SUBSET Seq(Phases)]
    /\ sessions \in [Swaps -> SUBSET Sessions]
    /\ signed \in [Swaps -> [Sessions -> Nat]]
    /\ leg \in [Swaps -> {"unspent", "spent"}]
    /\ pushes \in [Swaps -> SUBSET {"insert", "invalidate", "release-settle", "release-refund"}]
    /\ closes \in [Swaps -> SUBSET Terminal]
    /\ acked \in SUBSET Swaps
    /\ faults \in 0..MaxFaults

LEMMA SwapInvParts ==
    ASSUME SwapInv
    PROVE  /\ StoresTyped /\ calls \in [Workers -> CallType]
           /\ \A w \in Workers : CallOk(calls[w], rows, audit, sessions, leg)
           /\ \A s \in Swaps : SwapOk(s, rows, audit, sessions, signed, leg, pushes, acked)
BY DEF SwapInv, TypeOK, StoresTyped

\* A step of worker w keeps the invariant if the stores evolve and stay in
\* order, and w's own call does.
LEMMA SwapStep ==
    ASSUME SwapInv, NEW w \in Workers, NEW d, calls' = [calls EXCEPT ![w] = d],
           CallOk(d, rows', audit', sessions', leg'),
           Evolves(rows, audit, sessions, leg, rows', audit', sessions', leg'),
           StoresTyped',
           \A s \in Swaps : SwapOk(s, rows', audit', sessions', signed', leg', pushes', acked')
    PROVE  SwapInv'
<1>1. d \in CallType
  BY DEF CallOk
<1>2. calls' \in [Workers -> CallType] /\ calls'[w] = d
      /\ \A v \in Workers : v # w => calls'[v] = calls[v]
  BY <1>1, SwapInvParts
<1>3. \A v \in Workers : CallOk(calls[v], rows', audit', sessions', leg')
  BY SwapInvParts, CallRests
<1>4. \A v \in Workers : CallOk(calls'[v], rows', audit', sessions', leg')
  BY <1>2, <1>3
<1>5. TypeOK'
  BY <1>2 DEF TypeOK, StoresTyped
<1> QED BY <1>4, <1>5 DEF SwapInv

\* A step that only moves w's call, and perhaps counts a fault.
LEMMA LocalStep ==
    ASSUME SwapInv, NEW w \in Workers, NEW d, calls' = [calls EXCEPT ![w] = d],
           CallOk(d, rows, audit, sessions, leg),
           UNCHANGED <<rows, audit, sessions, signed, leg, pushes, closes, acked>>,
           faults' \in 0..MaxFaults
    PROVE  SwapInv'
<1>1. /\ rows' = rows /\ audit' = audit /\ sessions' = sessions /\ signed' = signed
      /\ leg' = leg /\ pushes' = pushes /\ closes' = closes /\ acked' = acked
  OBVIOUS
<1>2. StoresTyped'
  BY <1>1, SwapInvParts DEF StoresTyped
<1>3. Evolves(rows, audit, sessions, leg, rows', audit', sessions', leg')
  BY <1>1 DEF Evolves
<1>4. \A s \in Swaps : SwapOk(s, rows', audit', sessions', signed', leg', pushes', acked')
  BY <1>1, SwapInvParts
<1>5. CallOk(d, rows', audit', sessions', leg')
  BY <1>1
<1> QED BY <1>2, <1>3, <1>4, <1>5, SwapStep

LEMMA FaultsTyped ==
    ASSUME SwapInv
    PROVE  /\ faults \in 0..MaxFaults
           /\ faults < MaxFaults => faults + 1 \in 0..MaxFaults
BY SwapInvParts, Backend DEF StoresTyped

\* The facts about a call that has a step to take.
LEMMA AtStep ==
    ASSUME SwapInv, NEW w \in Workers, calls[w].todo # <<>>
    PROVE  /\ calls[w] \in CallType /\ calls[w].swap \in Swaps
           /\ CallOk(calls[w], rows, audit, sessions, leg)
           /\ Script(calls[w].todo) /\ Head(calls[w].todo) \in ScriptSteps
           /\ Head(calls[w].todo) = calls[w].todo[1] /\ 1 \in DOMAIN calls[w].todo
           /\ Fits(calls[w].st, Head(calls[w].todo))
           /\ Head(calls[w].todo).do # "audit" => audit[calls[w].swap] # {}
<1>1. calls[w] \in CallType /\ CallOk(calls[w], rows, audit, sessions, leg)
  BY SwapInvParts
<1>2. Script(calls[w].todo) /\ Fits(calls[w].st, Head(calls[w].todo))
  BY <1>1 DEF CallOk
<1>3. Head(calls[w].todo) \in ScriptSteps /\ Head(calls[w].todo) = calls[w].todo[1]
  BY <1>2, TailScript
<1>4. Head(calls[w].todo).do # "audit" => audit[calls[w].swap] # {}
  BY <1>1 DEF CallOk, Step
<1>5. 1 \in DOMAIN calls[w].todo
  <2>1. calls[w].todo \in Seq(ScriptSteps)
    BY <1>2 DEF Script
  <2> QED BY <2>1
<1>6. calls[w].swap \in Swaps
  BY <1>1 DEF CallType
<1> QED BY <1>1, <1>2, <1>3, <1>4, <1>5, <1>6

\* Moving on to the next step of the script with the stores untouched.
LEMMA GoesOk ==
    ASSUME SwapInv, NEW w \in Workers, calls[w].todo # <<>>,
           Head(calls[w].todo).do \notin {"audit", "put"},
           Head(calls[w].todo).do # "discard",
           NEW d \in CallType, d.todo = calls[w].todo, d.swap = calls[w].swap, d.st = calls[w].st
    PROVE  CallOk(After(d), rows, audit, sessions, leg)
<1>1. Evolves(rows, audit, sessions, leg, rows, audit, sessions, leg)
  BY DEF Evolves
<1>2. d.st = Done(calls[w].st, Head(calls[w].todo))
  BY DEF Done
<1>3. Head(calls[w].todo) # Step("discard", "canceled")
  BY DEF Step
<1> QED BY <1>1, <1>2, <1>3, AtStep, CallGoes

-----------------------------------------------------------------------------
(* The invariant of all log backends, one lemma per action *)

LEMMA SwapInit == ASSUME Init PROVE SwapInv
<1>1. calls = [w \in Workers |-> Idle] /\ calls \in [Workers -> CallType]
  BY IdleIsCall DEF Init
<1>2. \A w \in Workers : CallOk(calls[w], rows, audit, sessions, leg)
  BY <1>1, IdleOk
<1>3. TypeOK
  BY <1>1, Backend DEF Init, TypeOK
<1>4. \A s \in Swaps : SwapOk(s, rows, audit, sessions, signed, leg, pushes, acked)
  BY DEF Init, SwapOk, Sessions
<1> QED BY <1>2, <1>3, <1>4 DEF SwapInv

\* A state read from a row.
LEMMA StateOfRow ==
    ASSUME NEW row \in Row
    PROVE  /\ StateOf(row) \in SwapState /\ StateOf(row).phase = row.phase
           /\ StateOf(row).attempts = row.attempts /\ row.attempts \in Nat
BY DEF Row, StateOf, SwapState

LEMMA StartOk == ASSUME SwapInv, NEW w \in Workers, NEW s \in Swaps, Start(w, s) PROVE SwapInv'
<1> DEFINE d == [Idle EXCEPT !.todo = StartScript, !.swap = s]
<1>1. /\ rows' = rows /\ audit' = audit /\ signed' = signed /\ faults' = faults
      /\ leg' = leg /\ pushes' = pushes /\ closes' = closes /\ acked' = acked
      /\ sessions' = [sessions EXCEPT ![s] = Sessions] /\ audit[s] = {}
      /\ calls' = [calls EXCEPT ![w] = d]
  BY DEF Start
<1>2. StoresTyped'
  BY <1>1, SwapInvParts DEF StoresTyped
<1>3. Evolves(rows, audit, sessions, leg, rows', audit', sessions', leg')
  BY <1>1, SwapInvParts DEF Evolves, StoresTyped
<1>4. ASSUME NEW t \in Swaps
      PROVE  SwapOk(t, rows', audit', sessions', signed', leg', pushes', acked')
  <2>1. SwapOk(t, rows, audit, sessions, signed, leg, pushes, acked)
    BY SwapInvParts
  <2>2. CASE t # s
    <3>1. sessions'[t] = sessions[t]
      BY <1>1, <2>2, SwapInvParts DEF StoresTyped
    <3> QED BY <1>1, <2>1, <3>1 DEF SwapOk
  <2>3. CASE t = s
    <3>1. \A k \in Sessions : signed[s][k] \in Nat /\ ~(signed[s][k] > 0)
      BY <1>1, <2>1, <2>3, SwapInvParts DEF SwapOk, StoresTyped
    <3>2. \A k \in Sessions : signed[s][k] = 0
      BY <3>1
    <3> QED BY <1>1, <2>1, <2>3, <3>2 DEF SwapOk
  <2> QED BY <2>2, <2>3
<1>5. CallOk(d, rows', audit', sessions', leg')
  <2>1. StartScript \in Seq(Steps) /\ Script(StartScript) /\ StartScript # <<>>
        /\ Head(StartScript) = Step("audit", "init")
    BY StartScriptOk DEF StartsWith, Script, ScriptSteps
  <2>2. d \in CallType /\ d.todo = StartScript /\ d.st = NewState /\ d.swap = s
    <3>1. Idle \in CallType /\ Idle.st = NewState
      BY IdleIsCall DEF Idle
    <3> QED BY <2>1, <3>1 DEF CallType
  <2> HIDE DEF d
  <2>3. Fits(d.st, Step("audit", "init"))
    BY <2>2 DEF Fits, Precedes, MayEnter, NewState, Step
  <2>4. ~ \E i \in DOMAIN StartScript : StartScript[i].phase = "settled"
    BY StartScriptOk DEF Unsettling
  <2>5. Step("audit", "init").do = "audit" /\ Step("audit", "init") # Step("close", "canceled")
    BY DEF Step
  <2> QED BY <2>1, <2>2, <2>3, <2>4, <2>5 DEF CallOk
<1> HIDE DEF d
<1> QED BY <1>1, <1>2, <1>3, <1>4, <1>5, SwapStep

\* A call that begins with a script other than start_swap's.
LEMMA CallBegins ==
    ASSUME SwapInv, NEW s \in Swaps, rows[s] # Absent,
           NEW d \in CallType, d.swap = s, NEW e,
           StartsWith(d.todo, e), Unsettling(d.todo), Fits(d.st, e),
           e.do \in {"audit", "check", "sign"}
    PROVE  CallOk(d, rows, audit, sessions, leg)
<1>1. audit[s] # {}
  BY SwapInvParts DEF SwapOk
<1>2. e # Step("close", "canceled") /\ e.do \notin {"mint", "htlc-get", "htlc-put"}
  BY DEF Step
<1> QED BY <1>1, <1>2 DEF CallOk, StartsWith, Unsettling

LEMMA AdvanceOk ==
    ASSUME SwapInv, NEW w \in Workers, NEW s \in Swaps, Advance(w, s)
    PROVE  SwapInv'
<1> DEFINE script == CASE rows[s].phase = "insert-pushed" -> <<Step("check", "insert-pushed")>>
                       [] rows[s].phase = "aborted" -> InvalidateScript
                       [] OTHER -> RefundScript
           d == [Idle EXCEPT !.swap = s, !.st = StateOf(rows[s]), !.todo = script]
<1>1. /\ UNCHANGED <<rows, audit, sessions, signed, leg, pushes, closes, acked>>
      /\ faults' = faults /\ calls' = [calls EXCEPT ![w] = d] /\ rows[s] # Absent
      /\ rows[s].phase \in {"insert-pushed", "aborted", "invalidated"}
  BY DEF Advance
<1>2. rows[s] \in Row
  BY <1>1, SwapInvParts DEF StoresTyped
<1>3. StateOf(rows[s]) \in SwapState /\ StateOf(rows[s]).phase = rows[s].phase
  BY <1>2, StateOfRow
<1>4. PICK e : /\ StartsWith(script, e) /\ Unsettling(script)
               /\ Fits(StateOf(rows[s]), e) /\ e.do \in {"audit", "check", "sign"}
  <2>1. CASE rows[s].phase = "insert-pushed"
    <3> DEFINE one == <<Step("check", "insert-pushed")>>
    <3>1. script = one
      BY <2>1
    <3>2. Step("check", "insert-pushed") \in ScriptSteps
      BY DEF Step, Steps, StepKinds, Phases, ScriptSteps, Shaped
    <3>3. one \in Seq(ScriptSteps) /\ Len(one) = 1 /\ one # <<>>
          /\ Head(one) = Step("check", "insert-pushed") /\ one[1] = Step("check", "insert-pushed")
      BY <3>2
    <3> HIDE DEF one
    <3>4. StartsWith(one, Step("check", "insert-pushed"))
      BY <3>3 DEF StartsWith, Script
    <3>5. Unsettling(one)
      BY <3>3 DEF Unsettling, Step
    <3>6. Fits(StateOf(rows[s]), Step("check", "insert-pushed"))
      BY <1>3, <2>1 DEF Fits, Precedes, Step
    <3>7. Step("check", "insert-pushed").do = "check"
      BY DEF Step
    <3> QED BY <3>1, <3>4, <3>5, <3>6, <3>7
  <2>2. CASE rows[s].phase = "aborted"
    <3>1. script = InvalidateScript
      BY <2>2
    <3>2. Fits(StateOf(rows[s]), Step("audit", "invalidated"))
      BY <1>3, <2>2 DEF Fits, Precedes, MayEnter, Step
    <3>3. Step("audit", "invalidated").do = "audit"
      BY DEF Step
    <3> QED BY <3>1, <3>2, <3>3, InvalidateScriptOk
  <2>3. CASE rows[s].phase = "invalidated"
    <3>1. script = RefundScript
      BY <2>3
    <3>2. Fits(StateOf(rows[s]), Step("sign", "refunded"))
      BY <1>3, <2>3 DEF Fits, Precedes, MayEnter, Step
    <3>3. Step("sign", "refunded").do = "sign"
      BY DEF Step
    <3> QED BY <3>1, <3>2, <3>3, RefundScriptOk
  <2> QED BY <1>1, <2>1, <2>2, <2>3
<1> HIDE DEF script
<1>5. d \in CallType /\ d.swap = s /\ d.st = StateOf(rows[s]) /\ d.todo = script
  <2>1. script \in Seq(Steps)
    BY <1>4 DEF StartsWith, Script, ScriptSteps
  <2> QED BY <1>3, <2>1, IdleIsCall DEF CallType
<1> HIDE DEF d
<1>6. CallOk(d, rows, audit, sessions, leg)
  BY <1>1, <1>4, <1>5, CallBegins
<1> QED BY <1>1, <1>6, FaultsTyped, LocalStep

LEMMA CancelOk ==
    ASSUME SwapInv, NEW w \in Workers, NEW s \in Swaps, NEW by \in Parties, Cancel(w, s, by)
    PROVE  SwapInv'
<1> DEFINE script == CancelScript(rows[s].attempts)
           keep == [rows[s] EXCEPT !.by = by]
           d == [Idle EXCEPT !.swap = s, !.st = StateOf(rows[s]), !.keep = keep, !.todo = script]
<1>1. /\ UNCHANGED <<rows, audit, sessions, signed, leg, pushes, closes, acked>>
      /\ faults' = faults /\ calls' = [calls EXCEPT ![w] = d] /\ rows[s] # Absent
      /\ rows[s].phase \in Early \union {"insert-pushed"}
  BY DEF Cancel, MayCancel
<1>2. rows[s] \in Row
  BY <1>1, SwapInvParts DEF StoresTyped
<1>3. /\ StateOf(rows[s]) \in SwapState /\ StateOf(rows[s]).phase = rows[s].phase
      /\ keep \in Row /\ rows[s].attempts \in Nat
  BY <1>2, StateOfRow DEF Row
<1>4. StartsWith(script, Step("audit", "canceled")) /\ Unsettling(script)
  BY <1>3, CancelScriptOk
<1>5. Fits(StateOf(rows[s]), Step("audit", "canceled")) /\ Step("audit", "canceled").do = "audit"
  BY <1>1, <1>3 DEF Fits, Precedes, MayEnter, Step
<1> HIDE DEF script, keep
<1>6. d \in CallType /\ d.swap = s /\ d.st = StateOf(rows[s]) /\ d.todo = script
  <2>1. script \in Seq(Steps)
    BY <1>4 DEF StartsWith, Script, ScriptSteps
  <2> QED BY <1>3, <2>1, IdleIsCall DEF CallType
<1> HIDE DEF d
<1>7. CallOk(d, rows, audit, sessions, leg)
  BY <1>1, <1>4, <1>5, <1>6, CallBegins
<1> QED BY <1>1, <1>7, FaultsTyped, LocalStep

\* The next state of a call is typed.
LEMMA AdvancedType ==
    ASSUME NEW st \in SwapState, NEW p \in Phases
    PROVE  /\ Advanced(st, p) \in SwapState
           /\ Advanced(st, p).phase = p
           /\ Advanced(st, p).tip = Append(st.tip, p)
           /\ Advanced(st, p).tip \in Seq(Phases)
<1>1. st.attempts \in Nat /\ st.tip \in Seq(Phases)
  BY DEF SwapState
<1>2. Append(st.tip, p) \in Seq(Phases)
  BY <1>1
<1> QED BY <1>1, <1>2 DEF Advanced, SwapState

LEMMA DropsOk ==
    ASSUME SwapInv, NEW w \in Workers, Drops(w),
           UNCHANGED <<rows, audit, sessions, signed, leg, pushes, closes, acked>>,
           faults' \in 0..MaxFaults
    PROVE  SwapInv'
BY IdleOk, LocalStep DEF Drops

LEMMA AuditOk == ASSUME SwapInv, NEW w \in Workers, Audit(w) PROVE SwapInv'
<1> DEFINE c == calls[w]
           s == c.swap
           p == Head(c.todo).phase
           st == Advanced(c.st, p)
           d == [c EXCEPT !.st = st]
<1>1. /\ rows' = rows /\ sessions' = sessions /\ signed' = signed /\ faults' = faults
      /\ leg' = leg /\ pushes' = pushes /\ closes' = closes /\ acked' = acked
      /\ audit' = [audit EXCEPT ![s] = AuditAppend(audit[s], st.tip)]
      /\ c.todo # <<>> /\ Head(c.todo).do = "audit"
      /\ calls' = [calls EXCEPT ![w] = After(d)] \/ calls' = [calls EXCEPT ![w] = Idle]
  BY DEF Audit, At, Goes, Drops
<1>2. /\ c \in CallType /\ s \in Swaps /\ Head(c.todo) \in ScriptSteps
      /\ CallOk(c, rows, audit, sessions, leg)
  BY <1>1, AtStep
<1>3. p \in Phases /\ c.st \in SwapState
  BY <1>2 DEF ScriptSteps, Steps, CallType
<1>4. st \in SwapState /\ st.tip \in Seq(Phases)
  BY <1>3, AdvancedType
<1>5. /\ d \in CallType /\ d.todo = c.todo /\ d.swap = c.swap
      /\ d.st = Done(c.st, Head(c.todo))
  <2>1. st = Done(c.st, Head(c.todo))
    BY <1>1 DEF Done
  <2> HIDE DEF c, st
  <2> QED BY <1>2, <1>4, <2>1 DEF CallType
<1> HIDE DEF c, s, p, st, d
<1>6. StoresTyped /\ audit[s] \in SUBSET Seq(Phases) /\ audit \in [Swaps -> SUBSET Seq(Phases)]
  BY <1>2, SwapInvParts DEF StoresTyped
<1>7. AuditAppend(audit[s], st.tip) \in SUBSET Seq(Phases) /\ AuditAppend(audit[s], st.tip) # {}
  BY <1>4, <1>6 DEF AuditAppend, FdbAppend
<1>8. /\ audit' \in [Swaps -> SUBSET Seq(Phases)] /\ audit'[s] # {}
      /\ \A t \in Swaps : audit[t] # {} => audit'[t] # {}
  BY <1>1, <1>2, <1>6, <1>7
<1>9. StoresTyped'
  BY <1>1, <1>6, <1>8 DEF StoresTyped
<1>10. Evolves(rows, audit, sessions, leg, rows', audit', sessions', leg')
  BY <1>1, <1>8 DEF Evolves
<1>11. \A t \in Swaps : SwapOk(t, rows', audit', sessions', signed', leg', pushes', acked')
  BY <1>1, <1>8, SwapInvParts DEF SwapOk
<1>12. Head(c.todo) # Step("discard", "canceled") /\ Head(c.todo).do # "put"
  BY <1>1 DEF Step
<1>13. CallOk(After(d), rows', audit', sessions', leg')
  <2>1. audit'[c.swap] # {} /\ c.todo # <<>>
    BY <1>1, <1>8 DEF s
  <2>2. CallOk(c, rows, audit, sessions, leg)
    BY <1>2
  <2> QED BY <1>5, <1>10, <1>12, <2>1, <2>2, CallGoes
<1>14. CallOk(Idle, rows', audit', sessions', leg')
  BY IdleOk
<1> QED BY <1>1, <1>9, <1>10, <1>11, <1>13, <1>14, SwapStep

LEMMA PersistGetOk == ASSUME SwapInv, NEW w \in Workers, PersistGet(w) PROVE SwapInv'
<1> DEFINE c == calls[w]
           keep == IF rows[c.swap] = Absent THEN NoRow ELSE rows[c.swap]
           d == [c EXCEPT !.keep = keep]
<1>1. /\ UNCHANGED <<rows, audit, sessions, signed, leg, pushes, closes, acked>>
      /\ faults' = faults /\ calls' = [calls EXCEPT ![w] = After(d)]
      /\ c.todo # <<>> /\ Head(c.todo).do = "get"
  BY DEF PersistGet, At, Goes
<1>2. c \in CallType /\ c.swap \in Swaps
  BY <1>1, AtStep
<1>3. keep \in Row
  BY <1>2, IdleIsCall, SwapInvParts DEF StoresTyped, CallType, Idle
<1> HIDE DEF keep
<1>4. d \in CallType /\ d.todo = c.todo /\ d.swap = c.swap /\ d.st = c.st
  BY <1>2, <1>3 DEF CallType
<1> HIDE DEF d
<1>5. CallOk(After(d), rows, audit, sessions, leg)
  BY <1>1, <1>4, GoesOk
<1> QED BY <1>1, <1>5, FaultsTyped, LocalStep

\* Writing a row for a swap that has a log entry.
LEMMA UpsertOk ==
    ASSUME SwapInv, NEW w \in Workers, NEW row \in Row, NEW d \in CallType,
           calls[w].todo # <<>>, Head(calls[w].todo).do \in {"put", "htlc-put"},
           d.todo = calls[w].todo, d.swap = calls[w].swap, d.st = calls[w].st,
           Upsert(calls[w].swap, row), calls' = [calls EXCEPT ![w] = After(d)],
           UNCHANGED <<audit, sessions, signed, leg, pushes, closes, acked, faults>>
    PROVE  SwapInv'
<1> DEFINE c == calls[w]
           s == c.swap
<1>1. s \in Swaps /\ audit[s] # {} /\ CallOk(c, rows, audit, sessions, leg)
  BY AtStep
<1>2. /\ audit' = audit /\ sessions' = sessions /\ signed' = signed /\ faults' = faults
      /\ leg' = leg /\ pushes' = pushes /\ closes' = closes /\ acked' = acked
      /\ rows' = [rows EXCEPT ![s] = row]
  BY DEF Upsert
<1>3. /\ rows' \in [Swaps -> Row \union {Absent}] /\ rows'[s] = row /\ row # Absent
      /\ \A t \in Swaps : t # s => rows'[t] = rows[t]
  BY <1>1, <1>2, SwapInvParts, AbsentRowAssumption DEF StoresTyped
<1>4. StoresTyped'
  BY <1>2, <1>3, SwapInvParts DEF StoresTyped
<1>5. Evolves(rows, audit, sessions, leg, rows', audit', sessions', leg')
  BY <1>2, <1>3 DEF Evolves
<1>6. \A t \in Swaps : SwapOk(t, rows', audit', sessions', signed', leg', pushes', acked')
  BY <1>1, <1>2, <1>3, SwapInvParts DEF SwapOk
<1>7. d.st = Done(c.st, Head(c.todo)) /\ Head(c.todo) # Step("discard", "canceled")
  BY DEF Done, Step
<1>8. CallOk(After(d), rows', audit', sessions', leg')
  BY <1>1, <1>2, <1>3, <1>5, <1>7, CallGoes
<1> QED BY <1>4, <1>5, <1>6, <1>8, SwapStep

LEMMA PersistPutOk == ASSUME SwapInv, NEW w \in Workers, PersistPut(w) PROVE SwapInv'
<1> DEFINE c == calls[w]
           row == RowOf(c.st, c.keep.htlc, c.keep.by)
<1>1. /\ UNCHANGED <<audit, sessions, signed, leg, pushes, closes, acked, faults>>
      /\ Upsert(c.swap, row) /\ calls' = [calls EXCEPT ![w] = After(c)]
      /\ c.todo # <<>> /\ Head(c.todo).do = "put"
  BY DEF PersistPut, At, Goes
<1>2. c \in CallType /\ Head(c.todo) \in ScriptSteps /\ Fits(c.st, Head(c.todo))
  BY <1>1, AtStep
<1>3. c.st.phase \in Phases
  BY <1>1, <1>2 DEF Fits, Precedes, ScriptSteps, Steps
<1>4. c.st \in SwapState /\ c.keep \in Row
  BY <1>2 DEF CallType
<1>5. row \in Row
  <2> HIDE DEF c
  <2> QED BY <1>3, <1>4 DEF RowOf, Row, SwapState
<1> HIDE DEF row
<1> QED BY <1>1, <1>2, <1>5, UpsertOk

LEMMA MintOk == ASSUME SwapInv, NEW w \in Workers, Mint(w) PROVE SwapInv'
<1> DEFINE c == calls[w]
           two == <<Step("htlc-get", "init"), Step("htlc-put", "init")>>
           todo == <<Head(c.todo), Step("htlc-get", "init"), Step("htlc-put", "init")>> \o Tail(c.todo)
           d == [c EXCEPT !.todo = todo]
<1>1. /\ UNCHANGED <<rows, audit, sessions, signed, leg, pushes, closes, acked>>
      /\ faults' = faults /\ c.todo # <<>> /\ Head(c.todo).do = "mint"
      /\ calls' = [calls EXCEPT ![w] = After(c)] \/ calls' = [calls EXCEPT ![w] = After(d)]
  <2>1. \E minted \in BOOLEAN :
          Goes(w, [c EXCEPT !.todo = IF minted THEN todo ELSE c.todo])
    BY DEF Mint
  <2>2. c \in CallType /\ [c EXCEPT !.todo = c.todo] = c
    BY AtStep DEF Mint, At, CallType
  <2>3. Goes(w, c) \/ Goes(w, d)
    BY <2>1, <2>2
  <2> QED BY <2>3 DEF Mint, At, Goes
<1>2. /\ c \in CallType /\ c.swap \in Swaps /\ CallOk(c, rows, audit, sessions, leg)
      /\ Script(c.todo) /\ Head(c.todo) \in ScriptSteps /\ Fits(c.st, Head(c.todo))
  BY <1>1, AtStep
<1>3. CallOk(After(c), rows, audit, sessions, leg)
  BY <1>1, <1>2, GoesOk
<1>4. CallOk(After(d), rows, audit, sessions, leg)
  <2> DEFINE h == Head(c.todo)
             t == Tail(c.todo)
             g == Step("htlc-get", "init")
             q == Step("htlc-put", "init")
  <2>1. h.phase = "init" /\ h \in ScriptSteps /\ t \in Seq(ScriptSteps)
    BY <1>1, <1>2, TailScript DEF ScriptSteps, Shaped
  <2>2. g \in ScriptSteps /\ q \in ScriptSteps
    BY DEF Step, Steps, StepKinds, Phases, Early, ScriptSteps, Shaped
  <2> HIDE DEF h, t, g, q
  <2>3. todo = <<h, g, q>> \o t
    BY DEF h, t, g, q
  <2> HIDE DEF todo
  <2>4. /\ todo \in Seq(ScriptSteps) /\ Len(todo) = Len(t) + 3 /\ Len(t) \in Nat
        /\ todo[1] = h /\ todo[2] = g /\ todo[3] = q
        /\ \A i \in 4..Len(todo) : todo[i] = t[i - 3]
    BY <2>1, <2>2, <2>3
  <2>5. /\ Tail(todo) \in Seq(ScriptSteps) /\ Len(Tail(todo)) = Len(t) + 2 /\ Tail(todo) # <<>>
        /\ \A i \in 1..(Len(t) + 2) : Tail(todo)[i] = todo[i + 1]
        /\ Head(Tail(todo)) = g
    <3>1. todo # <<>> /\ Len(todo) - 1 = Len(t) + 2
      BY <2>4
    <3>2. /\ Tail(todo) \in Seq(ScriptSteps) /\ Len(Tail(todo)) = Len(t) + 2
          /\ \A i \in 1..(Len(t) + 2) : Tail(todo)[i] = todo[i + 1]
      BY <2>4, <3>1, TailOf
    <3>3. Tail(todo) # <<>> /\ Tail(todo)[1] = g
      BY <2>4, <3>2
    <3>4. Head(Tail(todo)) = Tail(todo)[1]
      BY <3>2, <3>3, TailOf
    <3> QED BY <3>2, <3>3, <3>4
  <2> DEFINE u == Tail(todo)
  <2> HIDE DEF u
  <2>6. /\ u \in Seq(ScriptSteps) /\ Len(u) = Len(t) + 2 /\ u # <<>> /\ Head(u) = g
        /\ u[1] = g /\ u[2] = q /\ \A i \in 3..Len(u) : u[i] = t[i - 2]
    <3>1. u[1] = g
      BY <2>4, <2>5 DEF u
    <3>2. u[2] = q
      BY <2>4, <2>5 DEF u
    <3>3. ASSUME NEW i \in 3..Len(u) PROVE u[i] = t[i - 2]
      <4>1. i \in 1..(Len(t) + 2) /\ i + 1 \in 4..Len(todo) /\ (i + 1) - 3 = i - 2
        BY <2>4, <2>5 DEF u
      <4> QED BY <2>4, <2>5, <4>1 DEF u
    <3> QED BY <2>5, <3>1, <3>2, <3>3 DEF u
  <2>7. ASSUME NEW i \in 1..(Len(u) - 1)
        PROVE  Linked(u[i], u[i + 1])
    <3>1. CASE i = 1
      <4>1. Linked(g, q)
        BY DEF Linked, Stored, Precedes, Step, g, q
      <4> QED BY <2>6, <3>1, <4>1
    <3>2. CASE i = 2
      <4>1. Len(t) >= 1 /\ Len(c.todo) # 1 /\ u[3] = t[1] /\ t[1] = Head(t)
        <5>1. Len(t) >= 1
          BY <2>4, <2>6, <3>2
        <5>2. 3 \in 3..Len(u) /\ 3 - 2 = 1
          BY <2>4, <2>6, <5>1
        <5>3. t[1] = Head(t)
          BY <2>1, <5>1
        <5>4. Len(c.todo) \in Nat /\ Len(t) = Len(c.todo) - 1
          BY <1>1, <1>2, TailOf DEF Script, t
        <5>5. Len(c.todo) # 1
          BY <2>4, <5>1, <5>4, NotOne
        <5> QED BY <2>6, <5>1, <5>2, <5>3, <5>5
      <4>2. Linked(h, Head(t))
        BY <1>1, <1>2, <4>1, TailScript DEF h, t
      <4>3. Linked(q, Head(t))
        <5>1. Head(t).do # "mint" /\ Head(t).do # "htlc-get" /\ Head(t).do # "htlc-put"
          <6>1. h.do = "mint"
            BY <1>1 DEF h
          <6> QED BY <4>2, <6>1 DEF Linked
        <5>2. q.do = "htlc-put" /\ q.phase = h.phase /\ h.do = "mint"
          BY <1>1, <2>1 DEF q, h, Step
        <5> QED BY <4>2, <5>1, <5>2 DEF Linked, Stored, Precedes
      <4> QED BY <2>6, <3>2, <4>1, <4>3
    <3>3. CASE i > 2
      <4>1. /\ i \in 3..Len(u) /\ i + 1 \in 3..Len(u) /\ i - 2 \in 1..(Len(t) - 1)
            /\ (i + 1) - 2 = (i - 2) + 1
        BY <2>4, <2>6, <3>3
      <4>2. Len(c.todo) # 1
        <5>1. Len(c.todo) \in Nat /\ Len(t) = Len(c.todo) - 1
          BY <1>1, <1>2, TailOf DEF Script, t
        <5>2. Len(t) >= 1
          BY <2>4, <4>1
        <5> QED BY <2>4, <5>1, <5>2, NotOne
      <4>3. Script(t)
        BY <1>1, <1>2, <4>2, TailScript DEF t
      <4>4. Linked(t[i - 2], t[(i - 2) + 1])
        BY <4>1, <4>3 DEF Script
      <4> QED BY <2>6, <4>1, <4>4
    <3> QED BY <2>4, <2>6, <3>1, <3>2, <3>3
  <2>8. Script(u)
    BY <2>6, <2>7 DEF Script
  <2>9. Fits(c.st, g)
    BY <1>1, <1>2, <2>1 DEF Fits, Precedes, Step, g, h
  <2>10. audit[c.swap] # {} /\ rows[c.swap] # Absent
    BY <1>1, <1>2, AtStep DEF CallOk
  <2>11. (\E i \in DOMAIN u : u[i].phase = "settled") => leg[c.swap] = "spent"
    <3> SUFFICES ASSUME NEW i \in DOMAIN u, u[i].phase = "settled"
                 PROVE  \E j \in DOMAIN c.todo : c.todo[j].phase = "settled"
      BY <1>1, <1>2 DEF CallOk
    <3>1. g.phase = "init" /\ q.phase = "init"
      BY DEF g, q, Step
    <3>2. i \in 3..Len(u) /\ i - 2 \in DOMAIN t /\ u[i] = t[i - 2]
      BY <2>1, <2>4, <2>6, <3>1
    <3>3. (i - 2) + 1 \in DOMAIN c.todo /\ t[i - 2] = c.todo[(i - 2) + 1]
      BY <1>1, <1>2, <3>2, TailScript DEF t
    <3> QED BY <3>2, <3>3
  <2>12. g.do = "htlc-get" /\ g # Step("close", "canceled")
    BY DEF g, Step
  <2> DEFINE e == After(d)
  <2>13. e \in CallType /\ e.todo = u /\ e.swap = c.swap /\ e.st = c.st
    <3>1. todo \in Seq(Steps) /\ u \in Seq(Steps)
      BY <2>4, <2>6 DEF ScriptSteps
    <3>2. d \in CallType /\ d.todo = todo /\ d.swap = c.swap /\ d.st = c.st
      BY <1>2, <3>1 DEF CallType
    <3>3. Len(todo) # 1
      BY <2>4
    <3> HIDE DEF d
    <3>4. e = [d EXCEPT !.todo = u]
      BY <3>2, <3>3 DEF After, u
    <3> QED BY <3>1, <3>2, <3>4 DEF CallType
  <2> HIDE DEF e
  <2>14. CallOk(e, rows, audit, sessions, leg)
    BY <2>6, <2>8, <2>9, <2>10, <2>11, <2>12, <2>13 DEF CallOk
  <2> QED BY <2>14 DEF e
<1> QED BY <1>1, <1>3, <1>4, FaultsTyped, LocalStep

LEMMA HtlcGetOk == ASSUME SwapInv, NEW w \in Workers, HtlcGet(w) PROVE SwapInv'
<1> DEFINE c == calls[w]
           d == [c EXCEPT !.keep = rows[c.swap]]
<1>1. /\ UNCHANGED <<rows, audit, sessions, signed, leg, pushes, closes, acked>>
      /\ faults' = faults /\ calls' = [calls EXCEPT ![w] = After(d)]
      /\ c.todo # <<>> /\ Head(c.todo).do = "htlc-get"
  BY DEF HtlcGet, At, Goes
<1>2. c \in CallType /\ c.swap \in Swaps /\ CallOk(c, rows, audit, sessions, leg)
  BY <1>1, AtStep
<1>3. rows[c.swap] \in Row
  BY <1>1, <1>2, SwapInvParts DEF StoresTyped, CallOk
<1>4. d \in CallType /\ d.todo = c.todo /\ d.swap = c.swap /\ d.st = c.st
  BY <1>2, <1>3 DEF CallType
<1> HIDE DEF d
<1>5. CallOk(After(d), rows, audit, sessions, leg)
  BY <1>1, <1>4, GoesOk
<1> QED BY <1>1, <1>5, FaultsTyped, LocalStep

LEMMA HtlcPutOk == ASSUME SwapInv, NEW w \in Workers, HtlcPut(w) PROVE SwapInv'
<1> DEFINE c == calls[w]
           row == [c.keep EXCEPT !.htlc = TRUE]
<1>1. /\ UNCHANGED <<audit, sessions, signed, leg, pushes, closes, acked, faults>>
      /\ Upsert(c.swap, row) /\ calls' = [calls EXCEPT ![w] = After(c)]
      /\ c.todo # <<>> /\ Head(c.todo).do = "htlc-put"
  BY DEF HtlcPut, At, Goes
<1>2. c \in CallType
  BY <1>1, AtStep
<1>3. c.keep \in Row
  BY <1>2 DEF CallType
<1>4. row \in Row
  BY <1>3 DEF Row
<1> HIDE DEF row
<1> QED BY <1>1, <1>2, <1>4, UpsertOk

LEMMA VerifyOk == ASSUME SwapInv, NEW w \in Workers, Verify(w) PROVE SwapInv'
<1> DEFINE c == calls[w]
<1>1. PICK ok \in BOOLEAN : Goes(w, [c EXCEPT !.ok = ok])
  BY DEF Verify
<1> DEFINE d == [c EXCEPT !.ok = ok]
<1>2. /\ UNCHANGED <<rows, audit, sessions, signed, leg, pushes, closes, acked>>
      /\ faults' = faults /\ calls' = [calls EXCEPT ![w] = After(d)]
      /\ c.todo # <<>> /\ Head(c.todo).do = "verify"
  BY <1>1 DEF Verify, At, Goes
<1>3. c \in CallType
  BY <1>2, AtStep
<1>4. d \in CallType /\ d.todo = c.todo /\ d.swap = c.swap /\ d.st = c.st
  BY <1>3 DEF CallType
<1> HIDE DEF d
<1>5. CallOk(After(d), rows, audit, sessions, leg)
  BY <1>2, <1>4, GoesOk
<1> QED BY <1>2, <1>5, FaultsTyped, LocalStep

\* The post-check enters the settle script only when Bob's webcash is spent.
LEMMA PostCheckOk ==
    ASSUME NEW st \in SwapState, st.phase = "insert-pushed", NEW status
    PROVE  \E e : /\ StartsWith(PostCheck(st, status), e)
                  /\ Fits(st, e) /\ e.do \in {"audit", "push"} /\ e # Step("audit", "init")
                  /\ status # "spent" => Unsettling(PostCheck(st, status))
<1>1. CASE status = "spent"
  <2>1. PostCheck(st, status) = SettleScript
    BY <1>1 DEF PostCheck
  <2>2. LET e == Step("audit", "settled")
        IN  Fits(st, e) /\ e.do = "audit" /\ e # Step("audit", "init")
    BY DEF Fits, Precedes, MayEnter, Step
  <2> QED BY <1>1, <2>1, <2>2, SettleScriptOk
<1>2. CASE status # "spent" /\ st.attempts < Retry
  <2>1. PostCheck(st, status) = RetryScript
    BY <1>2 DEF PostCheck
  <2>2. LET e == Step("push", "insert-pushed")
        IN  Fits(st, e) /\ e.do = "push" /\ e # Step("audit", "init")
    BY <1>2 DEF Fits, Precedes, MayEnter, Step
  <2> QED BY <2>1, <2>2, RetryScriptOk
<1>3. CASE status # "spent" /\ ~(st.attempts < Retry)
  <2>1. PostCheck(st, status) = AbortScript
    BY <1>3 DEF PostCheck
  <2>2. st.attempts >= Retry
    BY <1>3, Backend DEF SwapState
  <2>3. LET e == Step("audit", "aborted")
        IN  Fits(st, e) /\ e.do = "audit" /\ e # Step("audit", "init")
    BY <2>2 DEF Fits, Precedes, MayEnter, Step
  <2> QED BY <2>1, <2>3, AbortScriptOk
<1> QED BY <1>1, <1>2, <1>3

\* A script put behind one step is what is left after it.
LEMMA OneMore ==
    ASSUME NEW X, NEW h \in X, NEW script \in Seq(X), script # <<>>
    PROVE  LET todo == <<h>> \o script IN
           todo \in Seq(X) /\ todo # <<>> /\ Tail(todo) = script /\ Len(todo) # 1
<1> DEFINE todo == <<h>> \o script
<1>1. todo \in Seq(X) /\ Len(todo) = Len(script) + 1 /\ Len(script) >= 1
      /\ Len(script) \in Nat /\ Len(todo) \in Nat /\ todo # <<>>
      /\ \A i \in 1..Len(script) : todo[i + 1] = script[i]
  OBVIOUS
<1> HIDE DEF todo
<1>2. Tail(todo) \in Seq(X) /\ Len(Tail(todo)) = Len(todo) - 1
      /\ \A i \in 1..(Len(todo) - 1) : Tail(todo)[i] = todo[i + 1]
  BY <1>1, TailOf
<1>3. Len(todo) - 1 = Len(script)
  BY <1>1
<1>4. Len(Tail(todo)) = Len(script) /\ \A i \in 1..Len(script) : Tail(todo)[i] = script[i]
  BY <1>1, <1>2, <1>3
<1>5. Tail(todo) = script
  BY <1>2, <1>4
<1>6. Len(todo) # 1
  BY <1>1, <1>3, NotOne
<1> QED BY <1>1, <1>5, <1>6 DEF todo

LEMMA CheckStepOk == ASSUME SwapInv, NEW w \in Workers, Check(w) PROVE SwapInv'
<1> DEFINE c == calls[w]
           h == Head(c.todo)
<1>1. PICK status \in {leg[c.swap], "unknown"} :
        Goes(w, IF h.phase = "pre-checked" THEN [c EXCEPT !.ok = status = "unspent"]
                ELSE [c EXCEPT !.todo = <<h>> \o PostCheck(c.st, status)])
  BY DEF Check
<1>2. /\ UNCHANGED <<rows, audit, sessions, signed, leg, pushes, closes, acked>>
      /\ faults' = faults /\ c.todo # <<>> /\ h.do = "check"
  BY DEF Check, At
<1>3. /\ c \in CallType /\ c.swap \in Swaps /\ h \in ScriptSteps /\ Fits(c.st, h)
      /\ audit[c.swap] # {}
  BY <1>2, AtStep
<1>4. CASE h.phase = "pre-checked"
  <2> DEFINE d == [c EXCEPT !.ok = status = "unspent"]
  <2>1. calls' = [calls EXCEPT ![w] = After(d)]
    BY <1>1, <1>4 DEF Goes
  <2>2. (status = "unspent") \in BOOLEAN
    OBVIOUS
  <2>3. d \in CallType /\ d.todo = c.todo /\ d.swap = c.swap /\ d.st = c.st
    BY <1>3, <2>2 DEF CallType
  <2> HIDE DEF d
  <2>4. CallOk(After(d), rows, audit, sessions, leg)
    BY <1>2, <2>3, GoesOk
  <2> QED BY <1>2, <2>1, <2>4, FaultsTyped, LocalStep
<1>5. CASE h.phase # "pre-checked"
  <2> DEFINE script == PostCheck(c.st, status)
             todo == <<h>> \o script
             d == [c EXCEPT !.todo = todo]
  <2>1. calls' = [calls EXCEPT ![w] = After(d)]
    BY <1>1, <1>5 DEF Goes
  <2>2. c.st \in SwapState /\ c.st.phase = "insert-pushed"
    BY <1>2, <1>3, <1>5 DEF CallType, ScriptSteps, Shaped, Fits, Precedes
  <2>3. PICK e : /\ StartsWith(script, e)
                 /\ Fits(c.st, e) /\ e.do \in {"audit", "push"} /\ e # Step("audit", "init")
                 /\ status # "spent" => Unsettling(script)
    BY <2>2, PostCheckOk
  <2> HIDE DEF script
  <2>4. script \in Seq(ScriptSteps) /\ script # <<>> /\ Head(script) = e /\ Script(script)
    BY <2>3 DEF StartsWith, Script
  <2>5. todo \in Seq(ScriptSteps) /\ todo # <<>> /\ Tail(todo) = script /\ Len(todo) # 1
    BY <1>3, <2>4, OneMore
  <2> HIDE DEF todo
  <2>6. d \in CallType /\ d.todo = todo /\ d.swap = c.swap /\ d.st = c.st
    <3>1. todo \in Seq(Steps)
      BY <2>5 DEF ScriptSteps
    <3> QED BY <1>3, <3>1 DEF CallType
  <2> HIDE DEF d
  <2> DEFINE f == After(d)
  <2>7. f \in CallType /\ f.todo = script /\ f.swap = c.swap /\ f.st = c.st
    <3>1. script \in Seq(Steps)
      BY <2>4 DEF ScriptSteps
    <3>2. f = [d EXCEPT !.todo = script]
      BY <2>5, <2>6 DEF After
    <3> QED BY <2>6, <3>1, <3>2 DEF CallType
  <2> HIDE DEF f
  <2>8. (\E i \in DOMAIN script : script[i].phase = "settled") => leg[c.swap] = "spent"
    BY <2>3 DEF Unsettling
  <2>9. e.do \notin {"mint", "htlc-get", "htlc-put"} /\ e # Step("close", "canceled")
    BY <2>3 DEF Step
  <2>10. CallOk(f, rows, audit, sessions, leg)
    BY <1>3, <2>3, <2>4, <2>7, <2>8, <2>9 DEF CallOk
  <2> QED BY <1>2, <2>1, <2>10, FaultsTyped, LocalStep DEF f
<1> QED BY <1>4, <1>5

\* A step of a call that leaves rows, logs and webcash alone.
LEMMA StoreStep ==
    ASSUME SwapInv, NEW w \in Workers, calls[w].todo # <<>>,
           Head(calls[w].todo).do \notin {"audit", "put"},
           calls' = [calls EXCEPT ![w] = After(calls[w])] \/ Drops(w),
           UNCHANGED <<rows, audit, leg>>,
           \A s \in Swaps : sessions[s] = {} => sessions'[s] = {},
           Head(calls[w].todo) = Step("discard", "canceled") => sessions'[calls[w].swap] = {},
           StoresTyped',
           \A s \in Swaps : SwapOk(s, rows, audit, sessions', signed', leg, pushes', acked')
    PROVE  SwapInv'
<1>1. rows' = rows /\ audit' = audit /\ leg' = leg
  OBVIOUS
<1>2. Evolves(rows, audit, sessions, leg, rows', audit', sessions', leg')
  BY <1>1 DEF Evolves
<1>3. \A s \in Swaps : SwapOk(s, rows', audit', sessions', signed', leg', pushes', acked')
  BY <1>1
<1>4. CallOk(Idle, rows', audit', sessions', leg')
  BY IdleOk
<1>5. CallOk(After(calls[w]), rows', audit', sessions', leg')
  <2> DEFINE c == calls[w]
  <2>1. c \in CallType /\ CallOk(c, rows, audit, sessions, leg) /\ audit'[c.swap] # {}
    BY <1>1, AtStep
  <2>2. c.st = Done(c.st, Head(c.todo))
    BY DEF Done
  <2> HIDE DEF c
  <2>3. c.todo # <<>> /\ Head(c.todo).do # "put"
        /\ (Head(c.todo) = Step("discard", "canceled") => sessions'[c.swap] = {})
    BY DEF c
  <2>4. CallOk(After(c), rows', audit', sessions', leg')
    BY <1>2, <2>1, <2>2, <2>3, CallGoes
  <2> QED BY <2>4 DEF c
<1> QED BY <1>2, <1>3, <1>4, <1>5, SwapStep DEF Drops

LEMMA PushOk == ASSUME SwapInv, NEW w \in Workers, Push(w) PROVE SwapInv'
<1> DEFINE c == calls[w]
           k == PushKind(Head(c.todo).phase)
<1>1. /\ rows' = rows /\ audit' = audit /\ leg' = leg /\ sessions' = sessions
      /\ signed' = signed /\ closes' = closes /\ acked' = acked /\ faults' = faults
      /\ pushes' = [pushes EXCEPT ![c.swap] = pushes[c.swap] \union {k}]
      /\ c.todo # <<>> /\ Head(c.todo).do = "push"
      /\ calls' = [calls EXCEPT ![w] = After(c)]
  BY DEF Push, At, Goes
<1>2. /\ c.swap \in Swaps /\ Head(c.todo) = c.todo[1] /\ 1 \in DOMAIN c.todo
      /\ CallOk(c, rows, audit, sessions, leg)
  BY <1>1, AtStep
<1>3. k \in {"insert", "invalidate", "release-settle", "release-refund"}
      /\ (k = "release-settle" => leg[c.swap] = "spent")
  <2>1. k = "release-settle" => Head(c.todo).phase = "settled"
    BY DEF PushKind
  <2>2. k \in {"insert", "invalidate", "release-settle", "release-refund"}
    BY DEF PushKind
  <2> QED BY <1>1, <1>2, <2>1, <2>2 DEF CallOk
<1> HIDE DEF k
<1>4. pushes' \in [Swaps -> SUBSET {"insert", "invalidate", "release-settle", "release-refund"}]
      /\ \A s \in Swaps : pushes'[s] = pushes[s] \/ (s = c.swap /\ pushes'[s] = pushes[s] \union {k})
  BY <1>1, <1>2, <1>3, SwapInvParts DEF StoresTyped
<1>5. StoresTyped'
  BY <1>1, <1>4, SwapInvParts DEF StoresTyped
<1>6. \A s \in Swaps : SwapOk(s, rows, audit, sessions', signed', leg, pushes', acked')
  <2> SUFFICES ASSUME NEW s \in Swaps
               PROVE  SwapOk(s, rows, audit, sessions', signed', leg, pushes', acked')
    OBVIOUS
  <2>1. SwapOk(s, rows, audit, sessions, signed, leg, pushes, acked)
    BY SwapInvParts
  <2>2. "release-settle" \in pushes'[s] => "release-settle" \in pushes[s] \/ leg[s] = "spent"
    BY <1>3, <1>4
  <2> QED BY <1>1, <2>1, <2>2 DEF SwapOk
<1>7. Head(c.todo) # Step("discard", "canceled")
  BY <1>1 DEF Step
<1> QED BY <1>1, <1>5, <1>6, <1>7, StoreStep

LEMMA PushIgnoredOk == ASSUME SwapInv, NEW w \in Workers, PushIgnored(w) PROVE SwapInv'
<1>1. /\ UNCHANGED <<rows, audit, sessions, signed, leg, pushes, closes, acked>>
      /\ calls[w].todo # <<>> /\ Head(calls[w].todo).do = "push"
      /\ calls' = [calls EXCEPT ![w] = After(calls[w])]
      /\ faults < MaxFaults /\ faults' = faults + 1
  BY DEF PushIgnored, At, Goes
<1>2. CallOk(After(calls[w]), rows, audit, sessions, leg)
  BY <1>1, AtStep, GoesOk
<1> QED BY <1>1, <1>2, FaultsTyped, LocalStep

\* partial_sign takes the session and leaves its signature, in one step.
LEMMA SignOk == ASSUME SwapInv, NEW w \in Workers, Sign(w) PROVE SwapInv'
<1> DEFINE c == calls[w]
           s == c.swap
           k == SessionFor(Head(c.todo).phase)
<1>1. /\ rows' = rows /\ audit' = audit /\ leg' = leg /\ pushes' = pushes
      /\ closes' = closes /\ acked' = acked /\ faults' = faults
      /\ sessions' = [sessions EXCEPT ![s] = sessions[s] \ {k}]
      /\ signed' = [signed EXCEPT ![s][k] = signed[s][k] + 1]
      /\ c.todo # <<>> /\ Head(c.todo).do = "sign" /\ k \in sessions[s]
      /\ calls' = [calls EXCEPT ![w] = After(c)]
  BY DEF Sign, At, Goes
<1>2. /\ s \in Swaps /\ Head(c.todo) = c.todo[1] /\ 1 \in DOMAIN c.todo
      /\ CallOk(c, rows, audit, sessions, leg) /\ audit[s] # {}
  BY <1>1, AtStep
<1>3. k \in Sessions /\ (k = "settle" => leg[s] = "spent")
  <2>1. k = "settle" => Head(c.todo).phase = "settled"
    BY DEF SessionFor
  <2>2. k \in Sessions
    BY DEF SessionFor, Sessions
  <2> QED BY <1>1, <1>2, <2>1, <2>2 DEF CallOk
<1> HIDE DEF k, s
<1>4. /\ sessions \in [Swaps -> SUBSET Sessions] /\ signed \in [Swaps -> [Sessions -> Nat]]
      /\ signed[s][k] = 0
  BY <1>1, <1>2, <1>3, SwapInvParts DEF StoresTyped, SwapOk
<1>5. /\ sessions' \in [Swaps -> SUBSET Sessions] /\ sessions'[s] = sessions[s] \ {k}
      /\ \A t \in Swaps : t # s => sessions'[t] = sessions[t]
  BY <1>1, <1>2, <1>4
<1>6. /\ signed' \in [Swaps -> [Sessions -> Nat]] /\ signed'[s][k] = 1
      /\ \A j \in Sessions : j # k => signed'[s][j] = signed[s][j]
      /\ \A t \in Swaps : t # s => signed'[t] = signed[t]
  BY <1>1, <1>2, <1>3, <1>4
<1>7. StoresTyped'
  BY <1>1, <1>5, <1>6, SwapInvParts DEF StoresTyped
<1>8. ASSUME NEW t \in Swaps
      PROVE  SwapOk(t, rows, audit, sessions', signed', leg, pushes', acked')
  <2>1. SwapOk(t, rows, audit, sessions, signed, leg, pushes, acked)
    BY SwapInvParts
  <2>2. CASE t # s
    BY <1>1, <1>5, <1>6, <2>1, <2>2 DEF SwapOk
  <2>3. CASE t = s
    <3>1. ASSUME NEW j \in Sessions
          PROVE  /\ signed'[s][j] <= 1
                 /\ j \in sessions'[s] => signed'[s][j] = 0
                 /\ signed'[s][j] > 0 => audit[s] # {}
      BY <1>2, <1>5, <1>6, <2>1, <2>3 DEF SwapOk
    <3>2. signed'[s]["settle"] > 0 \/ "release-settle" \in pushes[s] => leg[s] = "spent"
      BY <1>3, <1>6, <2>1, <2>3 DEF SwapOk, Sessions
    <3>3. s \in acked => sessions'[s] = {} /\ audit[s] # {}
      BY <1>2, <1>5, <2>1, <2>3 DEF SwapOk
    <3> QED BY <1>1, <2>1, <2>3, <3>1, <3>2, <3>3 DEF SwapOk
  <2> QED BY <2>2, <2>3
<1>9. Head(c.todo) # Step("discard", "canceled")
  BY <1>1 DEF Step
<1>10. \A t \in Swaps : sessions[t] = {} => sessions'[t] = {}
  BY <1>5
<1> QED BY <1>1, <1>7, <1>8, <1>9, <1>10, StoreStep

\* Sessions taken away without a signature.
LEMMA Forgets ==
    ASSUME SwapInv, NEW w \in Workers, calls[w].todo # <<>>, NEW gone,
           Head(calls[w].todo).do \notin {"audit", "put"},
           calls' = [calls EXCEPT ![w] = After(calls[w])] \/ Drops(w),
           UNCHANGED <<rows, audit, leg, signed, pushes, closes, acked>>,
           sessions' = [sessions EXCEPT ![calls[w].swap] = sessions[calls[w].swap] \ gone],
           Head(calls[w].todo) = Step("discard", "canceled") => gone = Sessions,
           faults' \in 0..MaxFaults
    PROVE  SwapInv'
<1> DEFINE s == calls[w].swap
<1>1. s \in Swaps /\ sessions \in [Swaps -> SUBSET Sessions]
  BY AtStep, SwapInvParts DEF StoresTyped
<1> HIDE DEF s
<1>2. /\ sessions' \in [Swaps -> SUBSET Sessions] /\ sessions'[s] = sessions[s] \ gone
      /\ \A t \in Swaps : sessions'[t] \subseteq sessions[t]
  BY <1>1 DEF s
<1>3. StoresTyped'
  BY <1>2, SwapInvParts DEF StoresTyped
<1>4. \A t \in Swaps : SwapOk(t, rows, audit, sessions', signed', leg, pushes', acked')
  <2> SUFFICES ASSUME NEW t \in Swaps
               PROVE  SwapOk(t, rows, audit, sessions', signed', leg, pushes', acked')
    OBVIOUS
  <2>1. SwapOk(t, rows, audit, sessions, signed, leg, pushes, acked)
    BY SwapInvParts
  <2> QED BY <1>2, <2>1 DEF SwapOk
<1>5. \A t \in Swaps : sessions[t] = {} => sessions'[t] = {}
  BY <1>2
<1>6. Head(calls[w].todo) = Step("discard", "canceled") => sessions'[s] = {}
  BY <1>1, <1>2
<1> QED BY <1>3, <1>4, <1>5, <1>6, StoreStep DEF s

LEMMA SignFailsOk == ASSUME SwapInv, NEW w \in Workers, SignFails(w) PROVE SwapInv'
<1> DEFINE gone == {SessionFor(Head(calls[w].todo).phase)}
<1>1. /\ UNCHANGED <<rows, audit, leg, signed, pushes, closes, acked>>
      /\ calls[w].todo # <<>> /\ Head(calls[w].todo).do = "sign" /\ Drops(w)
      /\ sessions' = [sessions EXCEPT ![calls[w].swap] = sessions[calls[w].swap] \ gone]
      /\ faults < MaxFaults /\ faults' = faults + 1
  BY DEF SignFails, At
<1>2. Head(calls[w].todo) # Step("discard", "canceled")
  BY <1>1 DEF Step
<1> HIDE DEF gone
<1> QED BY <1>1, <1>2, FaultsTyped, Forgets

LEMMA DiscardOk == ASSUME SwapInv, NEW w \in Workers, Discard(w) PROVE SwapInv'
<1> DEFINE gone == Discarded(Head(calls[w].todo).phase)
<1>1. /\ UNCHANGED <<rows, audit, leg, signed, pushes, closes, acked>>
      /\ calls[w].todo # <<>> /\ Head(calls[w].todo).do = "discard"
      /\ calls' = [calls EXCEPT ![w] = After(calls[w])]
      /\ sessions' = [sessions EXCEPT ![calls[w].swap] = sessions[calls[w].swap] \ gone]
      /\ faults' = faults
  BY DEF Discard, At, Goes
<1>2. Head(calls[w].todo) = Step("discard", "canceled") => gone = Sessions
  BY DEF Step, Discarded
<1> HIDE DEF gone
<1> QED BY <1>1, <1>2, FaultsTyped, Forgets

LEMMA CloseOk == ASSUME SwapInv, NEW w \in Workers, Close(w) PROVE SwapInv'
<1> DEFINE c == calls[w]
           p == Head(c.todo).phase
<1>1. PICK closed \in {closes[c.swap], closes[c.swap] \union {p}} :
        closes' = [closes EXCEPT ![c.swap] = closed]
  BY DEF Close
<1>2. /\ rows' = rows /\ audit' = audit /\ leg' = leg /\ sessions' = sessions
      /\ signed' = signed /\ pushes' = pushes /\ faults' = faults
      /\ acked' = IF p = "canceled" THEN acked \union {c.swap} ELSE acked
      /\ c.todo # <<>> /\ Head(c.todo).do = "close" /\ calls' = [calls EXCEPT ![w] = After(c)]
  BY DEF Close, At, Goes
<1>3. /\ c.swap \in Swaps /\ CallOk(c, rows, audit, sessions, leg) /\ audit[c.swap] # {}
      /\ Head(c.todo) \in ScriptSteps
  BY <1>2, AtStep
<1>4. p \in Terminal
  BY <1>2, <1>3 DEF ScriptSteps, Shaped
<1>5. closes' \in [Swaps -> SUBSET Terminal]
  BY <1>1, <1>3, <1>4, SwapInvParts DEF StoresTyped
<1>6. StoresTyped'
  BY <1>2, <1>3, <1>5, SwapInvParts DEF StoresTyped
<1>7. p = "canceled" => sessions[c.swap] = {}
  <2>1. p = "canceled" => Head(c.todo) = Step("close", "canceled")
    BY <1>2, <1>3 DEF ScriptSteps, Steps, Step
  <2> QED BY <1>2, <1>3, <2>1 DEF CallOk
<1>8. \A s \in Swaps : SwapOk(s, rows, audit, sessions', signed', leg, pushes', acked')
  BY <1>2, <1>3, <1>7, SwapInvParts DEF SwapOk
<1>9. Head(c.todo) # Step("discard", "canceled")
  BY <1>2 DEF Step
<1> QED BY <1>2, <1>6, <1>8, <1>9, StoreStep

\* Steps that end a call and touch nothing.
LEMMA EndsOk ==
    ASSUME SwapInv, NEW w \in Workers, AuditContended(w) \/ SignRefused(w) \/ CallFails(w)
    PROVE  SwapInv'
<1>1. /\ UNCHANGED <<rows, audit, sessions, signed, leg, pushes, closes, acked>> /\ Drops(w)
      /\ faults' \in 0..MaxFaults
  BY FaultsTyped DEF AuditContended, SignRefused, CallFails
<1> QED BY <1>1, DropsOk

LEMMA LegSpentOk == ASSUME SwapInv, NEW s \in Swaps, LegSpent(s) PROVE SwapInv'
<1>1. /\ rows' = rows /\ audit' = audit /\ sessions' = sessions /\ signed' = signed
      /\ pushes' = pushes /\ closes' = closes /\ calls' = calls /\ acked' = acked
      /\ faults' = faults /\ leg' = [leg EXCEPT ![s] = "spent"]
  BY DEF LegSpent
<1>2. TypeOK'
  BY <1>1 DEF SwapInv, TypeOK
<1>3. \A t \in Swaps : leg[t] = "spent" => leg'[t] = "spent"
  BY <1>1, SwapInvParts DEF StoresTyped
<1>4. Evolves(rows, audit, sessions, leg, rows', audit', sessions', leg')
  BY <1>1, <1>3 DEF Evolves
<1>5. \A w \in Workers : CallOk(calls'[w], rows', audit', sessions', leg')
  BY <1>1, <1>4, SwapInvParts, CallRests
<1>6. \A t \in Swaps : SwapOk(t, rows', audit', sessions', signed', leg', pushes', acked')
  BY <1>1, <1>3, SwapInvParts DEF SwapOk
<1> QED BY <1>2, <1>5, <1>6 DEF SwapInv

LEMMA RestartOk == ASSUME SwapInv, Restart PROVE SwapInv'
<1>1. /\ rows' = rows /\ audit' = audit /\ signed' = signed /\ leg' = leg
      /\ pushes' = pushes /\ closes' = closes /\ acked' = acked
      /\ calls' = [w \in Workers |-> Idle] /\ sessions' = [s \in Swaps |-> {}]
      /\ faults' \in 0..MaxFaults
  BY FaultsTyped DEF Restart
<1>2. TypeOK'
  BY <1>1, IdleIsCall DEF SwapInv, TypeOK
<1>3. \A w \in Workers : CallOk(calls'[w], rows', audit', sessions', leg')
  BY <1>1, IdleOk
<1>4. \A s \in Swaps : SwapOk(s, rows', audit', sessions', signed', leg', pushes', acked')
  BY <1>1, SwapInvParts DEF SwapOk
<1> QED BY <1>2, <1>3, <1>4 DEF SwapInv

LEMMA SwapNext == ASSUME SwapInv, [Next]_vars PROVE SwapInv'
<1>1. CASE UNCHANGED vars
  BY <1>1 DEF vars, SwapInv, TypeOK
<1>2. ASSUME NEW w \in Workers, WorkerStep(w)
      PROVE  SwapInv'
  BY <1>2, AuditOk, EndsOk, PersistGetOk, PersistPutOk, MintOk, HtlcGetOk, HtlcPutOk, VerifyOk,
     CheckStepOk, PushOk, PushIgnoredOk, SignOk, SignFailsOk, DiscardOk, CloseOk DEF WorkerStep
<1>3. ASSUME NEW w \in Workers,
             \/ CallFails(w)
             \/ \E s \in Swaps : Start(w, s) \/ Advance(w, s) \/ \E by \in Parties : Cancel(w, s, by)
      PROVE  SwapInv'
  BY <1>3, EndsOk, StartOk, AdvanceOk, CancelOk
<1>4. CASE (\E s \in Swaps : LegSpent(s)) \/ Restart
  BY <1>4, LegSpentOk, RestartOk
<1> QED BY <1>1, <1>2, <1>3, <1>4 DEF Next

-----------------------------------------------------------------------------
(* Tips *)

LEMMA AppendIs ==
    ASSUME NEW t \in Seq(Phases), NEW p \in Phases
    PROVE  LET u == Append(t, p) IN
           /\ u \in Seq(Phases) /\ u # <<>> /\ Len(u) = Len(t) + 1 /\ Len(t) \in Nat
           /\ u[Len(t) + 1] = p /\ Last(u) = p
           /\ \A i \in 1..Len(t) : u[i] = t[i]
           /\ Front(u) = t
<1> DEFINE u == Append(t, p)
<1>1. /\ u \in Seq(Phases) /\ u # <<>> /\ Len(u) = Len(t) + 1 /\ Len(t) \in Nat
      /\ u[Len(t) + 1] = p /\ \A i \in 1..Len(t) : u[i] = t[i]
  OBVIOUS
<1> HIDE DEF u
<1>2. Last(u) = p
  BY <1>1 DEF Last
<1>3. Front(u) = t
  <2>1. Front(u) = SubSeq(u, 1, Len(t))
    <3>1. Len(u) - 1 = Len(t)
      BY <1>1
    <3> QED BY <3>1 DEF Front
  <2>2. SubSeq(u, 1, Len(t)) \in Seq(Phases) /\ Len(SubSeq(u, 1, Len(t))) = Len(t)
        /\ \A i \in 1..Len(t) : SubSeq(u, 1, Len(t))[i] = t[i]
    BY <1>1
  <2> QED BY <2>1, <2>2
<1> QED BY <1>1, <1>2, <1>3 DEF u

\* Appending a phase adds one push or none.
LEMMA PushedAppend ==
    ASSUME NEW t \in Seq(Phases), NEW p \in Phases
    PROVE  /\ Pushed(t) \in Nat
           /\ Pushed(Append(t, p)) = IF p = "insert-pushed" THEN Pushed(t) + 1 ELSE Pushed(t)
<1> DEFINE u == Append(t, p)
           n == Len(t)
           T == {i \in DOMAIN t : t[i] = "insert-pushed"}
           U == {i \in DOMAIN u : u[i] = "insert-pushed"}
<1>1. /\ n \in Nat /\ DOMAIN t = 1..n /\ DOMAIN u = 1..(n + 1) /\ u[n + 1] = p
      /\ \A i \in 1..n : u[i] = t[i]
  BY AppendIs
<1>2. T \in SUBSET (1..n) /\ n + 1 \notin T
  BY <1>1
<1>3. U = IF p = "insert-pushed" THEN T \union {n + 1} ELSE T
  <2> HIDE DEF u, n
  <2>1. \A i : i \in DOMAIN u <=> i \in DOMAIN t \/ i = n + 1
    BY <1>1
  <2> QED BY <1>1, <2>1
<1> HIDE DEF n, T, U
<1>4. IsFiniteSet(T) /\ Cardinality(T) \in Nat
  <2>1. IsFiniteSet(1..n)
    BY <1>1, FS_Interval
  <2>2. IsFiniteSet(T)
    BY <1>2, <2>1, FS_Subset
  <2> QED BY <2>2, FS_CardinalityType
<1>5. Cardinality(T \union {n + 1}) = Cardinality(T) + 1
  BY <1>2, <1>4, FS_AddElement
<1> QED BY <1>3, <1>4, <1>5 DEF Pushed, T, U

LEMMA PushedNone == Pushed(<<>>) = 0
<1>1. {i \in DOMAIN <<>> : <<>>[i] = "insert-pushed"} = {}
  OBVIOUS
<1> QED BY <1>1, FS_EmptySet DEF Pushed

LEMMA BudgetIs == Budget \in Nat /\ Budget >= 1 /\ Budget >= Retry /\ (Retry >= 1 => Budget = Retry)
BY Backend DEF Budget

LEMMA TipGrows ==
    ASSUME NEW st, NEW log, NEW log2, log \subseteq log2, TipOk(st, log)
    PROVE  TipOk(st, log2)
BY DEF TipOk

\* TipOk looks at three fields only.
LEMMA TipSame ==
    ASSUME NEW a, NEW b, NEW log, a.phase = b.phase, a.attempts = b.attempts, a.tip = b.tip,
           TipOk(a, log)
    PROVE  TipOk(b, log)
BY DEF TipOk

\* The state a call is in: fresh, or covered by the log.
Covered(st, log) == IF st.phase = "new" THEN st = NewState ELSE TipOk(st, log)

\* Every legal transition leads from a covered state to a covered state.
LEMMA AdvancedTip ==
    ASSUME NEW st \in SwapState, NEW p \in Phases, MayEnter(st, p), NEW log, Covered(st, log)
    PROVE  LET nxt == Advanced(st, p) IN
           /\ TipOk(nxt, log \union {nxt.tip})
           /\ Chained(nxt.tip, log)
<1> DEFINE nxt == Advanced(st, p)
           t == st.tip
<1>1. t \in Seq(Phases) /\ st.attempts \in Nat
  BY DEF SwapState
<1>2. /\ nxt.phase = p /\ nxt.tip = Append(t, p)
      /\ nxt.attempts = IF p # "insert-pushed" THEN st.attempts
                        ELSE IF st.phase = "pre-checked" THEN 1 ELSE st.attempts + 1
  BY DEF Advanced
<1> HIDE DEF nxt
<1>3. /\ nxt.tip # <<>> /\ Last(nxt.tip) = p /\ Front(nxt.tip) = t
      /\ Len(nxt.tip) = Len(t) + 1 /\ Len(t) \in Nat
      /\ \A i \in 1..Len(t) : nxt.tip[i] = t[i]
  BY <1>1, <1>2, AppendIs
<1>4. /\ Pushed(t) \in Nat
      /\ Pushed(nxt.tip) = IF p = "insert-pushed" THEN Pushed(t) + 1 ELSE Pushed(t)
  BY <1>1, <1>2, PushedAppend
<1>5. Budget \in Nat /\ Budget >= 1 /\ Budget >= Retry /\ Retry \in Nat /\ (Retry >= 1 => Budget = Retry)
  BY BudgetIs, Backend
<1>6. CASE st.phase = "new"
  <2>1. p = "init" /\ st = NewState
    BY <1>6 DEF MayEnter, Covered, Early
  <2>2. t = <<>> /\ st.attempts = 0 /\ Pushed(t) = 0
    BY <2>1, PushedNone DEF NewState
  <2>3. nxt.tip = <<"init">>
    BY <1>2, <2>1, <2>2
  <2>4. nxt.attempts = 0 /\ Pushed(nxt.tip) = 0 /\ nxt.phase = "init"
    BY <1>2, <1>4, <2>1, <2>2
  <2>5. TipOk(nxt, log \union {nxt.tip})
    BY <1>2, <1>3, <1>5, <2>1, <2>4 DEF TipOk
  <2> QED BY <2>3, <2>5 DEF nxt, Chained
<1>7. CASE st.phase # "new"
  <2>1. TipOk(st, log)
    BY <1>7 DEF Covered
  <2>2. t \in log /\ st.attempts = Pushed(t) /\ t # <<>> /\ Last(t) = st.phase
    BY <2>1 DEF TipOk
  <2>3. nxt.attempts = Pushed(nxt.tip)
    BY <1>1, <1>2, <1>4, <2>1, <2>2 DEF TipOk, MayEnter, Early
  <2>4. nxt.attempts <= Budget
    <3>1. st.attempts <= Budget
      BY <2>1 DEF TipOk
    <3>2. CASE p # "insert-pushed"
      BY <1>2, <3>1, <3>2
    <3>3. CASE p = "insert-pushed" /\ st.phase = "pre-checked"
      BY <1>2, <1>5, <3>3
    <3>4. CASE p = "insert-pushed" /\ st.phase # "pre-checked"
      <4>1. st.attempts < Retry /\ nxt.attempts = st.attempts + 1
        BY <1>2, <3>4 DEF MayEnter
      <4> HIDE DEF nxt
      <4> QED BY <1>1, <1>5, <4>1
    <3> QED BY <3>2, <3>3, <3>4
  <2>5. p \in Early => nxt.attempts = 0
    BY <1>2, <1>7, <2>1 DEF TipOk, MayEnter, Early
  <2>6. p = "insert-pushed" => nxt.attempts >= 1
    BY <1>1, <1>2
  <2>7. p \in {"aborted", "invalidated"} => nxt.attempts >= Budget
    <3>1. CASE p = "aborted"
      <4>1. st.attempts >= 1 /\ st.attempts >= Retry /\ nxt.attempts = st.attempts
        BY <1>2, <2>1, <3>1 DEF TipOk, MayEnter
      <4>2. Budget = 1 \/ Budget = Retry
        BY DEF Budget
      <4> QED BY <4>1, <4>2
    <3>2. CASE p = "invalidated"
      BY <1>2, <2>1, <3>2 DEF TipOk, MayEnter
    <3> QED BY <3>1, <3>2
  <2>8. p = "invalidated" => Len(nxt.tip) > 1 /\ nxt.tip[Len(nxt.tip) - 1] = "aborted"
    <3> SUFFICES ASSUME p = "invalidated"
                 PROVE  Len(nxt.tip) > 1 /\ nxt.tip[Len(nxt.tip) - 1] = "aborted"
      OBVIOUS
    <3>1. st.phase = "aborted"
      BY DEF MayEnter
    <3>2. Len(t) >= 1 /\ t[Len(t)] = "aborted"
      BY <1>1, <2>2, <3>1 DEF Last
    <3>3. Len(nxt.tip) - 1 = Len(t) /\ Len(t) \in 1..Len(t)
      BY <1>3, <3>2
    <3> QED BY <1>3, <3>2, <3>3
  <2>9. TipOk(nxt, log \union {nxt.tip})
    BY <1>2, <1>3, <2>3, <2>4, <2>5, <2>6, <2>7, <2>8 DEF TipOk
  <2>10. MayFollow(st.phase, p)
    BY <1>7 DEF MayEnter, MayFollow
  <2>11. Chained(nxt.tip, log)
    BY <1>3, <2>2, <2>10 DEF Chained
  <2> QED BY <2>9, <2>11 DEF nxt
<1> QED BY <1>6, <1>7

-----------------------------------------------------------------------------
(* The invariant of the logs that keep what is appended, one lemma per action *)

LEMMA TipInvParts ==
    ASSUME TipInv
    PROVE  /\ \A w \in Workers : TipCall(calls[w], audit)
           /\ \A s \in Swaps : TipSwap(s, rows, audit, signed)
BY DEF TipInv

LEMMA TipIdle == ASSUME NEW A PROVE TipCall(Idle, A)
BY IdleIsCall DEF TipCall

\* A step of worker w keeps the invariant if the logs grow, the swaps stay
\* covered, and w's own call does.
LEMMA TipStep ==
    ASSUME SwapInv, TipInv, NEW w \in Workers, NEW d, calls' = [calls EXCEPT ![w] = d],
           TipCall(d, audit'),
           \A s \in Swaps : audit[s] \subseteq audit'[s],
           \A s \in Swaps : TipSwap(s, rows', audit', signed')
    PROVE  TipInv'
<1>1. ASSUME NEW v \in Workers PROVE TipCall(calls[v], audit')
  <2>1. calls[v].swap \in Swaps
    BY SwapInvParts DEF CallType
  <2>2. TipCall(calls[v], audit)
    BY TipInvParts
  <2> QED BY <2>1, <2>2, TipGrows DEF TipCall
<1>2. calls'[w] = d /\ \A v \in Workers : v # w => calls'[v] = calls[v]
  BY SwapInvParts
<1>3. \A v \in Workers : TipCall(calls'[v], audit')
  BY <1>1, <1>2
<1> QED BY <1>3 DEF TipInv

\* A call that goes on with its script; only "htlc-get" leads to "htlc-put".
LEMMA TipGoes ==
    ASSUME NEW c \in CallType, c.todo # <<>>, Script(c.todo), NEW A,
           NEW d \in CallType, d.todo = c.todo, d.swap = c.swap,
           Covered(d.st, A[c.swap]),
           Head(c.todo).do = "htlc-get" => TipOk(StateOf(d.keep), A[c.swap])
    PROVE  TipCall(After(d), A)
<1>1. CASE Len(d.todo) = 1
  BY <1>1, TipIdle DEF After
<1>2. CASE Len(d.todo) # 1
  <2> DEFINE e == [d EXCEPT !.todo = Tail(d.todo)]
  <2>1. After(d) = e
    BY <1>2 DEF After
  <2>2. Linked(Head(c.todo), Head(Tail(c.todo)))
    BY <1>2, TailScript
  <2>3. e.todo = Tail(c.todo) /\ e.swap = c.swap /\ e.st = d.st /\ e.keep = d.keep
    BY DEF CallType
  <2> HIDE DEF e
  <2>4. Head(e.todo).do = "htlc-put" => TipOk(StateOf(e.keep), A[c.swap])
    BY <2>2, <2>3 DEF Linked
  <2> QED BY <2>1, <2>3, <2>4 DEF TipCall, Covered
<1> QED BY <1>1, <1>2

\* What a call that has a step to take knows.
LEMMA TipAt ==
    ASSUME SwapInv, TipInv, NEW w \in Workers, calls[w].todo # <<>>
    PROVE  /\ Covered(calls[w].st, audit[calls[w].swap])
           /\ Head(calls[w].todo).do = "htlc-put" => TipOk(StateOf(calls[w].keep), audit[calls[w].swap])
BY TipInvParts DEF TipCall, Covered

\* A step that leaves rows, logs and refund signatures alone.
LEMMA TipQuiet ==
    ASSUME SwapInv, TipInv, NEW w \in Workers, NEW d, calls' = [calls EXCEPT ![w] = d],
           TipCall(d, audit), rows' = rows, audit' = audit,
           \A s \in Swaps : signed'[s]["refund"] = signed[s]["refund"]
    PROVE  TipInv'
<1>1. \A s \in Swaps : TipSwap(s, rows', audit', signed')
  BY TipInvParts DEF TipSwap
<1> QED BY <1>1, TipStep

LEMMA TipDrops ==
    ASSUME SwapInv, TipInv, NEW w \in Workers, Drops(w), rows' = rows, audit' = audit, signed' = signed
    PROVE  TipInv'
BY TipIdle, TipQuiet DEF Drops

\* A step past which the call goes on in the state it was in.
LEMMA TipOn ==
    ASSUME SwapInv, TipInv, NEW w \in Workers, calls[w].todo # <<>>,
           Head(calls[w].todo).do # "htlc-get",
           NEW d \in CallType, d.todo = calls[w].todo, d.swap = calls[w].swap, d.st = calls[w].st,
           calls' = [calls EXCEPT ![w] = After(d)], rows' = rows, audit' = audit, signed' = signed
    PROVE  TipInv'
<1> DEFINE c == calls[w]
<1>1. c \in CallType /\ Script(c.todo)
  BY AtStep
<1>2. Covered(d.st, audit[c.swap])
  BY TipAt
<1>3. TipCall(After(d), audit)
  BY <1>1, <1>2, TipGoes
<1> QED BY <1>3, TipQuiet

LEMMA TipInit == ASSUME Init PROVE TipInv
<1>1. \A w \in Workers : TipCall(calls[w], audit)
  BY TipIdle DEF Init
<1>2. \A s \in Swaps : TipSwap(s, rows, audit, signed)
  BY DEF Init, TipSwap, Sessions
<1> QED BY <1>1, <1>2 DEF TipInv

LEMMA TipStart ==
    ASSUME SwapInv, TipInv, NEW w \in Workers, NEW s \in Swaps, Start(w, s)
    PROVE  TipInv'
<1> DEFINE d == [Idle EXCEPT !.todo = StartScript, !.swap = s]
<1>1. /\ calls' = [calls EXCEPT ![w] = d] /\ rows' = rows /\ audit' = audit /\ signed' = signed
  BY DEF Start
<1>2. d.todo = StartScript /\ d.st = NewState
  BY DEF Idle
<1>3. Head(StartScript) = Step("audit", "init")
  BY StartScriptOk DEF StartsWith
<1> HIDE DEF d
<1>4. TipCall(d, audit)
  BY <1>2, <1>3 DEF TipCall, NewState, Step
<1> QED BY <1>1, <1>4, TipQuiet

\* A call begins from the row it reads.
LEMMA TipBegins ==
    ASSUME SwapInv, TipInv, NEW w \in Workers, NEW s \in Swaps, rows[s] # Absent,
           NEW d, calls' = [calls EXCEPT ![w] = d], rows' = rows, audit' = audit, signed' = signed,
           d.swap = s, d.st = StateOf(rows[s]), Head(d.todo).do # "htlc-put"
    PROVE  TipInv'
<1>1. rows[s] \in Row /\ StateOf(rows[s]).phase = rows[s].phase
  BY SwapInvParts, StateOfRow DEF StoresTyped
<1>2. TipOk(StateOf(rows[s]), audit[s]) /\ StateOf(rows[s]).phase # "new"
  BY <1>1, TipInvParts DEF TipSwap, Row, Phases, Early, Terminal
<1>3. TipCall(d, audit)
  BY <1>2 DEF TipCall
<1> QED BY <1>3, TipQuiet

LEMMA TipAdvance ==
    ASSUME SwapInv, TipInv, NEW w \in Workers, NEW s \in Swaps, Advance(w, s)
    PROVE  TipInv'
<1> DEFINE script == CASE rows[s].phase = "insert-pushed" -> <<Step("check", "insert-pushed")>>
                       [] rows[s].phase = "aborted" -> InvalidateScript
                       [] OTHER -> RefundScript
           d == [Idle EXCEPT !.swap = s, !.st = StateOf(rows[s]), !.todo = script]
<1>1. /\ rows' = rows /\ audit' = audit /\ signed' = signed
      /\ calls' = [calls EXCEPT ![w] = d] /\ rows[s] # Absent
      /\ rows[s].phase \in {"insert-pushed", "aborted", "invalidated"}
  BY DEF Advance
<1>2. Head(script).do # "htlc-put"
  <2>1. CASE rows[s].phase = "insert-pushed"
    <3>1. script = <<Step("check", "insert-pushed")>>
      BY <2>1
    <3> HIDE DEF script
    <3> QED BY <3>1 DEF Step
  <2>2. CASE rows[s].phase = "aborted"
    <3>1. script = InvalidateScript
      BY <2>2
    <3> HIDE DEF script
    <3> QED BY <3>1, InvalidateScriptOk DEF StartsWith, Step
  <2>3. CASE rows[s].phase = "invalidated"
    <3>1. script = RefundScript
      BY <2>3
    <3> HIDE DEF script
    <3> QED BY <3>1, RefundScriptOk DEF StartsWith, Step
  <2> QED BY <1>1, <2>1, <2>2, <2>3
<1> HIDE DEF script
<1>3. d.swap = s /\ d.st = StateOf(rows[s]) /\ d.todo = script
  BY DEF Idle
<1> HIDE DEF d
<1> QED BY <1>1, <1>2, <1>3, TipBegins

LEMMA TipCancel ==
    ASSUME SwapInv, TipInv, NEW w \in Workers, NEW s \in Swaps, NEW by \in Parties, Cancel(w, s, by)
    PROVE  TipInv'
<1> DEFINE script == CancelScript(rows[s].attempts)
           keep == [rows[s] EXCEPT !.by = by]
           d == [Idle EXCEPT !.swap = s, !.st = StateOf(rows[s]), !.keep = keep, !.todo = script]
<1>1. /\ rows' = rows /\ audit' = audit /\ signed' = signed
      /\ calls' = [calls EXCEPT ![w] = d] /\ rows[s] # Absent
  BY DEF Cancel
<1>2. rows[s].attempts \in Nat
  BY <1>1, SwapInvParts, StateOfRow DEF StoresTyped
<1>3. Head(script) = Step("audit", "canceled")
  BY <1>2, CancelScriptOk DEF StartsWith
<1> HIDE DEF script, keep
<1>4. d.swap = s /\ d.st = StateOf(rows[s]) /\ d.todo = script
  BY DEF Idle
<1>5. Head(script).do # "htlc-put"
  BY <1>3 DEF Step
<1> HIDE DEF d
<1> QED BY <1>1, <1>4, <1>5, TipBegins

\* append stores the entry that covers the next state, and chains it.
LEMMA TipAudit ==
    ASSUME SwapInv, TipInv, AuditBackend # "fdb", NEW w \in Workers, Audit(w)
    PROVE  TipInv'
<1> DEFINE c == calls[w]
           s == c.swap
           p == Head(c.todo).phase
           st == Advanced(c.st, p)
           d == [c EXCEPT !.st = st]
           log == audit[s]
<1>1. /\ rows' = rows /\ signed' = signed
      /\ audit' = [audit EXCEPT ![s] = log \union {st.tip}]
      /\ c.todo # <<>> /\ Head(c.todo).do = "audit"
      /\ calls' = [calls EXCEPT ![w] = After(d)] \/ calls' = [calls EXCEPT ![w] = Idle]
  BY DEF Audit, At, Goes, Drops, AuditAppend
<1>2. /\ c \in CallType /\ s \in Swaps /\ Head(c.todo) \in ScriptSteps
      /\ Script(c.todo) /\ Fits(c.st, Head(c.todo)) /\ Covered(c.st, log)
  BY <1>1, AtStep, TipAt
<1>3. p \in Phases /\ c.st \in SwapState
  BY <1>2 DEF ScriptSteps, Steps, CallType
<1>4. st \in SwapState /\ st.phase = p
  BY <1>3, AdvancedType
<1>5. MayEnter(c.st, p)
  BY <1>1, <1>2 DEF Fits, Precedes
<1>6. /\ TipOk(st, log \union {st.tip})
      /\ Chained(st.tip, log)
  BY <1>2, <1>3, <1>5, AdvancedTip
<1>7. d \in CallType /\ d.todo = c.todo /\ d.swap = c.swap /\ d.st = st
  <2> HIDE DEF c, st
  <2> QED BY <1>2, <1>4 DEF CallType
<1> HIDE DEF d, st, c, s, p, log
<1>8. /\ audit'[s] = log \union {st.tip}
      /\ \A t \in Swaps : t # s => audit'[t] = audit[t]
      /\ \A t \in Swaps : audit[t] \subseteq audit'[t]
  BY <1>1, <1>2, SwapInvParts DEF StoresTyped, log
<1>9. ASSUME NEW t \in Swaps PROVE TipSwap(t, rows', audit', signed')
  <2>1. TipSwap(t, rows, audit, signed)
    BY TipInvParts
  <2>2. rows[t] # Absent => TipOk(StateOf(rows[t]), audit'[t])
    BY <1>8, <2>1, TipGrows DEF TipSwap
  <2>3. signed[t]["refund"] > 0 => \E tip \in audit'[t] : Exhausted(tip)
    BY <1>8, <2>1 DEF TipSwap
  <2>4. \A tip \in audit'[t] : Chained(tip, audit'[t])
    BY <1>6, <1>8, <2>1 DEF TipSwap, log, Chained
  <2> QED BY <1>1, <2>2, <2>3, <2>4 DEF TipSwap
<1>10. TipCall(After(d), audit')
  <2>1. Covered(st, audit'[c.swap])
    BY <1>3, <1>4, <1>6, <1>8 DEF Covered, Phases, Early, Terminal, s
  <2>2. Head(c.todo).do # "htlc-get"
    BY <1>1
  <2> QED BY <1>1, <1>2, <1>7, <2>1, <2>2, TipGoes
<1>11. TipCall(Idle, audit')
  BY TipIdle
<1> QED BY <1>1, <1>8, <1>9, <1>10, <1>11, TipStep

\* A row is written from a covered state.
LEMMA TipUpsert ==
    ASSUME SwapInv, TipInv, NEW w \in Workers, NEW row \in Row,
           calls[w].todo # <<>>, Head(calls[w].todo).do \in {"put", "htlc-put"},
           TipOk(StateOf(row), audit[calls[w].swap]),
           Upsert(calls[w].swap, row), calls' = [calls EXCEPT ![w] = After(calls[w])],
           audit' = audit, signed' = signed
    PROVE  TipInv'
<1> DEFINE c == calls[w]
           s == c.swap
<1>1. s \in Swaps /\ c \in CallType /\ Script(c.todo) /\ Covered(c.st, audit[s])
  BY AtStep, TipAt
<1>2. rows' = [rows EXCEPT ![s] = row]
  BY DEF Upsert
<1>3. rows'[s] = row /\ \A t \in Swaps : t # s => rows'[t] = rows[t]
  BY <1>1, <1>2, SwapInvParts DEF StoresTyped
<1>4. \A t \in Swaps : TipSwap(t, rows', audit', signed')
  BY <1>3, TipInvParts DEF TipSwap
<1>5. TipCall(After(c), audit')
  BY <1>1, TipGoes
<1> QED BY <1>4, <1>5, TipStep

LEMMA TipPut == ASSUME SwapInv, TipInv, NEW w \in Workers, PersistPut(w) PROVE TipInv'
<1> DEFINE c == calls[w]
           row == RowOf(c.st, c.keep.htlc, c.keep.by)
<1>1. /\ audit' = audit /\ signed' = signed
      /\ Upsert(c.swap, row) /\ calls' = [calls EXCEPT ![w] = After(c)]
      /\ c.todo # <<>> /\ Head(c.todo).do = "put"
  BY DEF PersistPut, At, Goes
<1>2. /\ c \in CallType /\ Head(c.todo) \in ScriptSteps /\ Fits(c.st, Head(c.todo))
      /\ Covered(c.st, audit[c.swap])
  BY <1>1, AtStep, TipAt
<1>3. c.st.phase \in Phases
  BY <1>1, <1>2 DEF Fits, Precedes, ScriptSteps, Steps
<1>4. c.st \in SwapState /\ c.keep \in Row
  BY <1>2 DEF CallType
<1> HIDE DEF c
<1>5. row \in Row
  BY <1>3, <1>4 DEF RowOf, Row, SwapState
<1>6. TipOk(c.st, audit[c.swap])
  BY <1>2, <1>3 DEF Covered, Phases, Early, Terminal
<1>7. /\ StateOf(row).phase = c.st.phase /\ StateOf(row).attempts = c.st.attempts
      /\ StateOf(row).tip = c.st.tip
  BY DEF RowOf, StateOf
<1> HIDE DEF row
<1>8. TipOk(StateOf(row), audit[c.swap])
  BY <1>6, <1>7, TipSame
<1> QED BY <1>1, <1>5, <1>8, TipUpsert DEF c

LEMMA TipHtlcPut == ASSUME SwapInv, TipInv, NEW w \in Workers, HtlcPut(w) PROVE TipInv'
<1> DEFINE c == calls[w]
           row == [c.keep EXCEPT !.htlc = TRUE]
<1>1. /\ audit' = audit /\ signed' = signed
      /\ Upsert(c.swap, row) /\ calls' = [calls EXCEPT ![w] = After(c)]
      /\ c.todo # <<>> /\ Head(c.todo).do = "htlc-put"
  BY DEF HtlcPut, At, Goes
<1>2. c.keep \in Row /\ TipOk(StateOf(c.keep), audit[c.swap])
  BY <1>1, AtStep, TipAt DEF CallType
<1>3. row \in Row /\ StateOf(row) = StateOf(c.keep)
  BY <1>2 DEF Row, StateOf
<1> HIDE DEF row
<1>4. TipOk(StateOf(row), audit[c.swap])
  BY <1>2, <1>3
<1> QED BY <1>1, <1>3, <1>4, TipUpsert

LEMMA TipHtlcGet == ASSUME SwapInv, TipInv, NEW w \in Workers, HtlcGet(w) PROVE TipInv'
<1> DEFINE c == calls[w]
           d == [c EXCEPT !.keep = rows[c.swap]]
<1>1. /\ rows' = rows /\ audit' = audit /\ signed' = signed
      /\ calls' = [calls EXCEPT ![w] = After(d)]
      /\ c.todo # <<>> /\ Head(c.todo).do = "htlc-get"
  BY DEF HtlcGet, At, Goes
<1>2. /\ c \in CallType /\ c.swap \in Swaps /\ CallOk(c, rows, audit, sessions, leg)
      /\ Script(c.todo) /\ Covered(c.st, audit[c.swap])
  BY <1>1, AtStep, TipAt
<1>3. rows[c.swap] # Absent /\ rows[c.swap] \in Row
  BY <1>1, <1>2, SwapInvParts DEF StoresTyped, CallOk
<1>4. TipOk(StateOf(rows[c.swap]), audit[c.swap])
  BY <1>2, <1>3, TipInvParts DEF TipSwap
<1>5. /\ d \in CallType /\ d.todo = c.todo /\ d.swap = c.swap /\ d.st = c.st
      /\ d.keep = rows[c.swap]
  BY <1>2, <1>3 DEF CallType
<1> HIDE DEF c, d
<1>6. TipCall(After(d), audit)
  BY <1>1, <1>2, <1>4, <1>5, TipGoes
<1> QED BY <1>1, <1>6, TipQuiet DEF c

\* mint_htlc_refund goes on with the read of the row.
LEMMA MintedTail ==
    ASSUME NEW X, NEW h \in X, NEW g \in X, NEW q \in X, NEW t \in Seq(X)
    PROVE  LET todo == <<h, g, q>> \o t IN
           todo \in Seq(X) /\ Len(todo) # 1 /\ Head(Tail(todo)) = g /\ Tail(todo) # <<>>
<1> DEFINE todo == <<h, g, q>> \o t
<1>1. /\ todo \in Seq(X) /\ Len(todo) = Len(t) + 3 /\ Len(t) \in Nat /\ todo[2] = g
  OBVIOUS
<1> HIDE DEF todo
<1>2. todo # <<>> /\ Len(todo) # 1 /\ 1 \in 1..(Len(todo) - 1) /\ 1 + 1 = 2
  BY <1>1
<1>3. /\ Tail(todo) \in Seq(X) /\ Len(Tail(todo)) = Len(todo) - 1
      /\ Tail(todo)[1] = g
  BY <1>1, <1>2, TailOf
<1>4. Tail(todo) # <<>>
  <2> DEFINE u == Tail(todo)
  <2>1. u \in Seq(X) /\ Len(u) # 0
    BY <1>1, <1>3
  <2> HIDE DEF u
  <2>2. u # <<>>
    BY <2>1
  <2> QED BY <2>2 DEF u
<1>5. Head(Tail(todo)) = g
  BY <1>3, <1>4, TailOf
<1> QED BY <1>1, <1>2, <1>4, <1>5 DEF todo

LEMMA TipMint == ASSUME SwapInv, TipInv, NEW w \in Workers, Mint(w) PROVE TipInv'
<1> DEFINE c == calls[w]
           g == Step("htlc-get", "init")
           q == Step("htlc-put", "init")
           todo == <<Head(c.todo), g, q>> \o Tail(c.todo)
           d == [c EXCEPT !.todo = todo]
<1>1. /\ rows' = rows /\ audit' = audit /\ signed' = signed
      /\ c.todo # <<>> /\ Head(c.todo).do = "mint"
      /\ calls' = [calls EXCEPT ![w] = After(c)] \/ calls' = [calls EXCEPT ![w] = After(d)]
  <2>1. \E minted \in BOOLEAN :
          Goes(w, [c EXCEPT !.todo = IF minted THEN todo ELSE c.todo])
    BY DEF Mint
  <2>2. c \in CallType /\ [c EXCEPT !.todo = c.todo] = c
    BY AtStep DEF Mint, At, CallType
  <2>3. Goes(w, c) \/ Goes(w, d)
    BY <2>1, <2>2
  <2> QED BY <2>3 DEF Mint, At, Goes
<1>2. /\ c \in CallType /\ Script(c.todo) /\ Head(c.todo) \in Steps /\ Tail(c.todo) \in Seq(Steps)
      /\ Covered(c.st, audit[c.swap])
  <2>1. c \in CallType /\ Script(c.todo) /\ Covered(c.st, audit[c.swap])
    BY <1>1, AtStep, TipAt
  <2>2. Head(c.todo) \in ScriptSteps /\ Tail(c.todo) \in Seq(ScriptSteps)
    BY <1>1, <2>1, TailScript
  <2> QED BY <2>1, <2>2 DEF ScriptSteps
<1>3. g \in Steps /\ q \in Steps /\ g.do # "htlc-put"
  BY DEF Step, Steps, StepKinds, Phases, Early
<1>4. CASE calls' = [calls EXCEPT ![w] = After(c)]
  BY <1>1, <1>2, <1>4, TipOn
<1>5. CASE calls' = [calls EXCEPT ![w] = After(d)]
  <2> HIDE DEF c, g, q
  <2>1. todo \in Seq(Steps) /\ Len(todo) # 1 /\ Head(Tail(todo)) = g
    BY <1>2, <1>3, MintedTail
  <2> HIDE DEF todo
  <2>2. d \in CallType /\ d.todo = todo /\ d.swap = c.swap /\ d.st = c.st
    BY <1>2, <2>1 DEF CallType
  <2> HIDE DEF d
  <2> DEFINE e == After(d)
  <2>3. e = [d EXCEPT !.todo = Tail(todo)]
    BY <2>1, <2>2 DEF After
  <2>4. e.todo = Tail(todo) /\ e.swap = c.swap /\ e.st = c.st
    BY <2>2, <2>3 DEF CallType
  <2> HIDE DEF e
  <2>5. TipCall(e, audit)
    BY <1>2, <1>3, <2>1, <2>4 DEF TipCall, Covered
  <2> QED BY <1>1, <1>5, <2>5, TipQuiet DEF e
<1> QED BY <1>1, <1>4, <1>5

LEMMA TipCheck == ASSUME SwapInv, TipInv, NEW w \in Workers, Check(w) PROVE TipInv'
<1> DEFINE c == calls[w]
           h == Head(c.todo)
<1>1. PICK status \in {leg[c.swap], "unknown"} :
        Goes(w, IF h.phase = "pre-checked" THEN [c EXCEPT !.ok = status = "unspent"]
                ELSE [c EXCEPT !.todo = <<h>> \o PostCheck(c.st, status)])
  BY DEF Check
<1>2. /\ rows' = rows /\ audit' = audit /\ signed' = signed /\ c.todo # <<>> /\ h.do = "check"
  BY DEF Check, At
<1>3. /\ c \in CallType /\ h \in ScriptSteps /\ Fits(c.st, h) /\ Covered(c.st, audit[c.swap])
  BY <1>2, AtStep, TipAt
<1>4. CASE h.phase = "pre-checked"
  <2> DEFINE d == [c EXCEPT !.ok = status = "unspent"]
  <2>1. calls' = [calls EXCEPT ![w] = After(d)]
    BY <1>1, <1>4 DEF Goes
  <2>2. (status = "unspent") \in BOOLEAN
    OBVIOUS
  <2>3. d \in CallType /\ d.todo = c.todo /\ d.swap = c.swap /\ d.st = c.st
    BY <1>3, <2>2 DEF CallType
  <2> HIDE DEF d
  <2> QED BY <1>2, <2>1, <2>3, TipOn
<1>5. CASE h.phase # "pre-checked"
  <2> DEFINE script == PostCheck(c.st, status)
             todo == <<h>> \o script
             d == [c EXCEPT !.todo = todo]
  <2>1. calls' = [calls EXCEPT ![w] = After(d)]
    BY <1>1, <1>5 DEF Goes
  <2>2. c.st \in SwapState /\ c.st.phase = "insert-pushed"
    BY <1>2, <1>3, <1>5 DEF CallType, ScriptSteps, Shaped, Fits, Precedes
  <2>3. PICK e : StartsWith(script, e) /\ e.do \in {"audit", "push"}
    BY <2>2, PostCheckOk
  <2> HIDE DEF script
  <2>4. script \in Seq(ScriptSteps) /\ script # <<>> /\ Head(script) = e
    BY <2>3 DEF StartsWith, Script
  <2>5. todo \in Seq(ScriptSteps) /\ Tail(todo) = script /\ Len(todo) # 1
    BY <1>3, <2>4, OneMore
  <2> HIDE DEF todo, c
  <2>6. d \in CallType /\ d.todo = todo /\ d.swap = c.swap /\ d.st = c.st
    <3>1. todo \in Seq(Steps)
      BY <2>5 DEF ScriptSteps
    <3> QED BY <1>3, <3>1 DEF CallType
  <2> HIDE DEF d
  <2> DEFINE f == After(d)
  <2>7. f = [d EXCEPT !.todo = script]
    BY <2>5, <2>6 DEF After
  <2>8. f.todo = script /\ f.swap = c.swap /\ f.st = c.st
    BY <2>6, <2>7 DEF CallType
  <2> HIDE DEF f
  <2>9. TipCall(f, audit)
    BY <1>3, <2>3, <2>4, <2>8 DEF TipCall, Covered
  <2> QED BY <1>2, <2>1, <2>9, TipQuiet DEF f
<1> QED BY <1>4, <1>5

\* A refund is signed by a call that is past "invalidated".
LEMMA TipSign == ASSUME SwapInv, TipInv, NEW w \in Workers, Sign(w) PROVE TipInv'
<1> DEFINE c == calls[w]
           s == c.swap
           h == Head(c.todo)
           k == SessionFor(h.phase)
<1>1. /\ rows' = rows /\ audit' = audit
      /\ signed' = [signed EXCEPT ![s][k] = signed[s][k] + 1]
      /\ c.todo # <<>> /\ h.do = "sign"
      /\ calls' = [calls EXCEPT ![w] = After(c)]
  BY DEF Sign, At, Goes
<1>2. /\ c \in CallType /\ s \in Swaps /\ h \in ScriptSteps /\ Script(c.todo) /\ Fits(c.st, h)
      /\ Covered(c.st, audit[s])
  BY <1>1, AtStep, TipAt
<1>3. k = "refund" => \E tip \in audit[s] : Exhausted(tip)
  <2> SUFFICES ASSUME k = "refund" PROVE \E tip \in audit[s] : Exhausted(tip)
    OBVIOUS
  <2>1. h.phase = "refunded"
    BY <1>1, <1>2 DEF SessionFor, ScriptSteps, Shaped
  <2>2. c.st.phase = "invalidated"
    BY <1>1, <1>2, <2>1 DEF Fits, Precedes, MayEnter
  <2>3. TipOk(c.st, audit[s])
    BY <1>2, <2>2 DEF Covered
  <2>4. Exhausted(c.st.tip) /\ c.st.tip \in audit[s]
    BY <2>2, <2>3 DEF Exhausted, TipOk
  <2> QED BY <2>4
<1>4. \A t \in Swaps : signed'[t]["refund"] = signed[t]["refund"] \/ (t = s /\ k = "refund")
  <2>1. k \in Sessions /\ signed \in [Swaps -> [Sessions -> Nat]]
    BY SwapInvParts DEF StoresTyped, SessionFor, Sessions
  <2> HIDE DEF k, s
  <2> QED BY <1>1, <1>2, <2>1 DEF Sessions
<1>5. \A t \in Swaps : TipSwap(t, rows', audit', signed')
  BY <1>1, <1>3, <1>4, TipInvParts DEF TipSwap
<1>6. TipCall(After(c), audit')
  BY <1>1, <1>2, TipGoes
<1> QED BY <1>1, <1>5, <1>6, TipStep

LEMMA TipGet == ASSUME SwapInv, TipInv, NEW w \in Workers, PersistGet(w) PROVE TipInv'
<1> DEFINE c == calls[w]
           keep == IF rows[c.swap] = Absent THEN NoRow ELSE rows[c.swap]
           d == [c EXCEPT !.keep = keep]
<1>1. /\ rows' = rows /\ audit' = audit /\ signed' = signed
      /\ calls' = [calls EXCEPT ![w] = After(d)] /\ c.todo # <<>> /\ Head(c.todo).do = "get"
  BY DEF PersistGet, At, Goes
<1>2. c \in CallType /\ c.swap \in Swaps
  BY <1>1, AtStep
<1>3. keep \in Row
  BY <1>2, IdleIsCall, SwapInvParts DEF StoresTyped, CallType, Idle
<1> HIDE DEF keep
<1>4. d \in CallType /\ d.todo = c.todo /\ d.swap = c.swap /\ d.st = c.st
  BY <1>2, <1>3 DEF CallType
<1> HIDE DEF d
<1> QED BY <1>1, <1>4, TipOn

LEMMA TipVerify == ASSUME SwapInv, TipInv, NEW w \in Workers, Verify(w) PROVE TipInv'
<1> DEFINE c == calls[w]
<1>1. PICK ok \in BOOLEAN : Goes(w, [c EXCEPT !.ok = ok])
  BY DEF Verify
<1> DEFINE d == [c EXCEPT !.ok = ok]
<1>2. /\ rows' = rows /\ audit' = audit /\ signed' = signed
      /\ calls' = [calls EXCEPT ![w] = After(d)] /\ c.todo # <<>> /\ Head(c.todo).do = "verify"
  BY <1>1 DEF Verify, At, Goes
<1>3. d \in CallType /\ d.todo = c.todo /\ d.swap = c.swap /\ d.st = c.st
  BY <1>2, AtStep DEF CallType
<1> HIDE DEF d
<1> QED BY <1>2, <1>3, TipOn

\* The awaits that touch neither row, log nor signature.
LEMMA TipElse ==
    ASSUME SwapInv, TipInv, NEW w \in Workers,
           \/ Push(w) \/ PushIgnored(w) \/ Discard(w) \/ Close(w)
           \/ AuditContended(w) \/ SignRefused(w) \/ SignFails(w) \/ CallFails(w)
    PROVE  TipInv'
<1>1. CASE Push(w) \/ PushIgnored(w) \/ Discard(w) \/ Close(w)
  <2>1. /\ rows' = rows /\ audit' = audit /\ signed' = signed
        /\ calls[w].todo # <<>> /\ Head(calls[w].todo).do # "htlc-get"
        /\ calls' = [calls EXCEPT ![w] = After(calls[w])]
    BY <1>1 DEF Push, PushIgnored, Discard, Close, At, Goes
  <2>2. calls[w] \in CallType
    BY SwapInvParts
  <2> QED BY <2>1, <2>2, TipOn
<1>2. CASE AuditContended(w) \/ SignRefused(w) \/ SignFails(w) \/ CallFails(w)
  BY <1>2, TipDrops DEF AuditContended, SignRefused, SignFails, CallFails
<1> QED BY <1>1, <1>2

LEMMA TipNext ==
    ASSUME SwapInv, TipInv, AuditBackend # "fdb", [Next]_vars
    PROVE  TipInv'
<1>1. CASE UNCHANGED vars
  BY <1>1 DEF vars, TipInv
<1>2. ASSUME NEW w \in Workers, WorkerStep(w)
      PROVE  TipInv'
  BY <1>2, TipAudit, TipGet, TipPut, TipMint, TipHtlcGet, TipHtlcPut, TipVerify, TipCheck,
     TipSign, TipElse DEF WorkerStep
<1>3. ASSUME NEW w \in Workers,
             \/ CallFails(w)
             \/ \E s \in Swaps : Start(w, s) \/ Advance(w, s) \/ \E by \in Parties : Cancel(w, s, by)
      PROVE  TipInv'
  BY <1>3, TipElse, TipStart, TipAdvance, TipCancel
<1>4. CASE \E s \in Swaps : LegSpent(s)
  BY <1>4 DEF LegSpent, TipInv
<1>5. CASE Restart
  <2>1. rows' = rows /\ audit' = audit /\ signed' = signed /\ \A w \in Workers : calls'[w] = Idle
    BY <1>5 DEF Restart
  <2> QED BY <2>1, TipInvParts, TipIdle DEF TipInv
<1> QED BY <1>1, <1>2, <1>3, <1>4, <1>5 DEF Next

-----------------------------------------------------------------------------
(* What is promised of every log backend *)

\* SwapInv holds in every reachable state: every call is at a step of its script
\* that its local state fits, however calls interleave, fail or are restarted.
THEOREM SwapInvariant == Spec => []SwapInv
<1>1. Init => SwapInv
  BY SwapInit
<1>2. SwapInv /\ [Next]_vars => SwapInv'
  BY SwapNext
<1> QED BY <1>1, <1>2, PTL DEF Spec

\* The referee's stores, sessions, pushes and calls keep their types.
THEOREM RefereeTypeCorrect == Spec => []TypeOK
<1>1. SwapInv => TypeOK
  BY DEF SwapInv
<1> QED BY <1>1, SwapInvariant, PTL

\* partial_sign (musig2.rs) never signs twice with one secret nonce: a live
\* session has no signature, and a swap with a log entry gets no new session.
THEOREM NoncesAreUsedOnce == Spec => []NonceUsedOnce
<1>1. SwapInv => NonceUsedOnce
  BY DEF SwapInv, SwapOk, NonceUsedOnce
<1> QED BY <1>1, SwapInvariant, PTL

\* The settle signature and its push leave only after webcash.org has reported
\* Bob's webcash as spent: no other script has a settle step.
THEOREM SettlesOnlySpent == Spec => []SettleNeedsSpent
<1>1. SwapInv => SettleNeedsSpent
  BY DEF SwapInv, SwapOk, SettleNeedsSpent
<1> QED BY <1>1, SwapInvariant, PTL

\* After cancel_swap's Ok nothing is signed for the swap: its sessions are gone
\* for good, even when a racing call overwrites the canceled row.
THEOREM CanceledStaysUnsigned == Spec => NoSignatureAfterCancel
<1> DEFINE Still == \A s \in acked : signed'[s] = signed[s]
<1>1. ASSUME SwapInv, [Next]_vars PROVE [Still]_vars
  <2>1. CASE \E w \in Workers : Sign(w)
    <3>1. PICK w \in Workers : Sign(w)
      BY <2>1
    <3> DEFINE c == calls[w]
               k == SessionFor(Head(c.todo).phase)
    <3>2. c.todo # <<>> /\ k \in sessions[c.swap]
          /\ signed' = [signed EXCEPT ![c.swap][k] = signed[c.swap][k] + 1]
      BY <3>1 DEF Sign, At
    <3>3. c.swap \in Swaps /\ c.swap \notin acked
      BY <1>1, <3>2, AtStep, SwapInvParts DEF SwapOk
    <3>4. signed \in [Swaps -> [Sessions -> Nat]] /\ acked \subseteq Swaps
      BY <1>1, SwapInvParts DEF StoresTyped
    <3> HIDE DEF c, k
    <3> QED BY <3>2, <3>3, <3>4
  <2>2. CASE ~ \E w \in Workers : Sign(w)
    <3>1. signed' = signed
      BY <1>1, <2>2 DEF vars, Next, WorkerStep, Audit, AuditContended, PersistGet, PersistPut, Mint,
         HtlcGet, HtlcPut, Verify, Check, Push, PushIgnored, SignRefused, SignFails, Discard, Close,
         CallFails, Start, Advance, Cancel, LegSpent, Restart
    <3> QED BY <3>1
  <2> QED BY <2>1, <2>2
<1>2. NoSignatureAfterCancel <=> [][Still]_vars
  BY DEF NoSignatureAfterCancel
<1> HIDE DEF Still
<1> QED BY <1>1, <1>2, SwapInvariant, PTL DEF Spec

-----------------------------------------------------------------------------
(* What is promised when the log keeps what is appended to it, as Redis, the  *)
(* in-memory log and DynamoDB do and the FoundationDB log does not (FdbAppend) *)

\* Every row and every call's local state is covered by the log.
LEMMA TipInvariant ==
    ASSUME AuditBackend # "fdb"
    PROVE  Spec => [](SwapInv /\ TipInv)
<1>1. Init => SwapInv /\ TipInv
  BY SwapInit, TipInit
<1>2. (SwapInv /\ TipInv) /\ [Next]_vars => (SwapInv /\ TipInv)'
  BY SwapNext, TipNext
<1> QED BY <1>1, <1>2, PTL DEF Spec

\* Every stored Transaction names a tip the log holds, of its own phase, and
\* its attempts are the pushes that tip commits to and within the budget.
THEOREM RowsAreAudited ==
    ASSUME AuditBackend # "fdb"
    PROVE  Spec => []RowIsAudited
<1>1. ASSUME SwapInv, TipInv PROVE RowIsAudited
  <2> SUFFICES ASSUME NEW s \in Swaps, rows[s] # Absent
               PROVE  /\ rows[s].tip \in audit[s]
                      /\ Last(rows[s].tip) = rows[s].phase
                      /\ rows[s].attempts = Pushed(rows[s].tip)
                      /\ rows[s].attempts <= Budget
    BY DEF RowIsAudited
  <2>1. TipOk(StateOf(rows[s]), audit[s])
    BY <1>1, TipInvParts DEF TipSwap
  <2> QED BY <2>1 DEF TipOk, StateOf
<1> QED BY <1>1, TipInvariant, PTL

\* Every log entry chains to an entry of the same log that its phase may follow,
\* back to "init": appends are made from a state whose tip is in the log.
THEOREM LogsAreChained ==
    ASSUME AuditBackend # "fdb"
    PROVE  Spec => []AuditIsChained
<1>1. TipInv => AuditIsChained
  BY DEF TipInv, TipSwap, Chained, AuditIsChained
<1> QED BY <1>1, TipInvariant, PTL

\* A refund signature means the log shows the whole push budget used, then
\* "aborted", then "invalidated": the row a call acts on is covered by the log.
THEOREM RefundsAreExhausted ==
    ASSUME AuditBackend # "fdb"
    PROVE  Spec => []RefundNeedsExhaustion
<1>1. TipInv => RefundNeedsExhaustion
  BY DEF TipInv, TipSwap, RefundNeedsExhaustion, Exhausted
<1> QED BY <1>1, TipInvariant, PTL

-----------------------------------------------------------------------------
(* Calls one after the other.  When no two calls on one swap overlap, the   *)
(* stored row moves in step with the only call there is: before a step's    *)
(* phase is stored the row shows a phase it may be entered from, after that *)
(* the phase itself.                                                        *)

\* Calls on one swap do not overlap.
Serial ==
    \A v, w \in Workers : v # w /\ calls[v] # Idle /\ calls[w] # Idle
                            => calls[v].swap # calls[w].swap

PhaseOf(row) == IF row = Absent THEN "new" ELSE row.phase

\* The phase q of the stored row when a call is about to take step e.
InPlace(e, q) == IF Stored(e) THEN q = e.phase ELSE MayFollow(q, e.phase)

SerialCall(c, R) ==
    c.todo # <<>> =>
        /\ InPlace(Head(c.todo), PhaseOf(R[c.swap]))
        /\ Head(c.todo).do = "htlc-put" => c.keep.phase = "init"

\* The HTLC record is closed as the row says, and a refund is signed only when
\* the row cannot become anything but "refunded".
SerialSwap(s, R, G, C) ==
    /\ C[s] \subseteq {PhaseOf(R[s])}
    /\ G[s]["refund"] > 0 => PhaseOf(R[s]) \in {"invalidated", "refunded"}

SerialInv ==
    /\ \A w \in Workers : SerialCall(calls[w], rows)
    /\ \A s \in Swaps : SerialSwap(s, rows, signed, closes)

LEMMA InPlaceOn ==
    ASSUME NEW e, NEW f, NEW q, InPlace(e, q), Linked(e, f), e.do # "put"
    PROVE  InPlace(f, q)
<1>1. CASE e.phase = f.phase
  BY <1>1 DEF Linked, InPlace
<1>2. CASE e.phase # f.phase
  <2>1. Stored(e) /\ Precedes(f)
        /\ <<e.phase, f.phase>> \in {<<"init", "zkps-verified">>, <<"zkps-verified", "pre-checked">>,
                                     <<"pre-checked", "insert-pushed">>}
    BY <1>2 DEF Linked
  <2>2. ~Stored(f)
    BY <2>1 DEF Stored
  <2> QED BY <2>1, <2>2 DEF InPlace, MayFollow
<1> QED BY <1>1, <1>2

LEMMA InPlacePut ==
    ASSUME NEW e, NEW f, Linked(e, f), e.do = "put"
    PROVE  InPlace(f, e.phase)
<1>1. CASE e.phase = f.phase
  BY <1>1 DEF Linked, InPlace
<1>2. CASE e.phase # f.phase
  <2>1. Precedes(f)
        /\ <<e.phase, f.phase>> \in {<<"init", "zkps-verified">>, <<"zkps-verified", "pre-checked">>,
                                     <<"pre-checked", "insert-pushed">>}
    BY <1>2 DEF Linked
  <2>2. ~Stored(f)
    BY <2>1 DEF Stored
  <2> QED BY <2>1, <2>2 DEF InPlace, MayFollow
<1> QED BY <1>1, <1>2

LEMMA SerialIdle == ASSUME NEW R PROVE SerialCall(Idle, R)
BY IdleIsCall DEF SerialCall

\* A call that takes its step is in place after it.
LEMMA SerialGoes ==
    ASSUME NEW c, Script(c.todo), c.todo # <<>>,
           NEW d \in CallType, d.todo = c.todo, d.swap = c.swap,
           NEW R, NEW R2, SerialCall(c, R),
           Head(c.todo).do = "put" => PhaseOf(R2[c.swap]) = Head(c.todo).phase,
           Head(c.todo).do # "put" => PhaseOf(R2[c.swap]) = PhaseOf(R[c.swap]),
           Head(c.todo).do = "htlc-get" => d.keep.phase = "init"
    PROVE  SerialCall(After(d), R2)
<1>1. CASE Len(d.todo) = 1
  BY <1>1, SerialIdle DEF After
<1>2. CASE Len(d.todo) # 1
  <2> DEFINE e == [d EXCEPT !.todo = Tail(d.todo)]
             h == Head(c.todo)
             f == Head(Tail(c.todo))
  <2>1. After(d) = e
    BY <1>2 DEF After
  <2>2. Tail(c.todo) # <<>> /\ Linked(h, f) /\ Tail(c.todo) \in Seq(ScriptSteps)
    BY <1>2, TailScript
  <2>3. Tail(c.todo) \in Seq(Steps)
    BY <2>2 DEF ScriptSteps
  <2>4. e \in CallType /\ e.todo = Tail(c.todo) /\ e.swap = c.swap /\ e.keep = d.keep
    BY <2>3 DEF CallType
  <2> HIDE DEF e
  <2>5. InPlace(f, PhaseOf(R2[c.swap]))
    <3>1. CASE h.do = "put"
      BY <2>2, <3>1, InPlacePut
    <3>2. CASE h.do # "put"
      <4>1. InPlace(h, PhaseOf(R[c.swap]))
        BY DEF SerialCall
      <4> QED BY <2>2, <3>2, <4>1, InPlaceOn
    <3> QED BY <3>1, <3>2
  <2>6. f.do = "htlc-put" => e.keep.phase = "init"
    BY <2>2, <2>4 DEF Linked
  <2> QED BY <2>1, <2>4, <2>5, <2>6 DEF SerialCall
<1> QED BY <1>1, <1>2

LEMMA SerialInvParts ==
    ASSUME SerialInv
    PROVE  /\ \A w \in Workers : SerialCall(calls[w], rows)
           /\ \A s \in Swaps : SerialSwap(s, rows, signed, closes)
BY DEF SerialInv

\* A step of worker w keeps the invariant if its call is in place after it; the
\* calls of others are on other swaps.
LEMMA SerialStep ==
    ASSUME SwapInv, Serial, SerialInv, NEW w \in Workers, NEW d,
           calls' = [calls EXCEPT ![w] = d],
           rows' = rows \/ (/\ calls[w].todo # <<>>
                            /\ \A t \in Swaps : t # calls[w].swap => rows'[t] = rows[t]),
           SerialCall(d, rows'),
           \A s \in Swaps : SerialSwap(s, rows', signed', closes')
    PROVE  SerialInv'
<1>1. calls'[w] = d /\ \A v \in Workers : v # w => calls'[v] = calls[v]
  BY SwapInvParts
<1>2. ASSUME NEW v \in Workers, v # w PROVE SerialCall(calls[v], rows')
  <2>1. SerialCall(calls[v], rows)
    BY SerialInvParts
  <2>2. CASE calls[v].todo = <<>>
    BY <2>2 DEF SerialCall
  <2>3. CASE rows' = rows
    BY <2>1, <2>3
  <2>4. CASE calls[v].todo # <<>> /\ rows' # rows
    <3>1. calls[v] # Idle /\ calls[w] # Idle
      BY <2>4, IdleIsCall
    <3>2. calls[v].swap # calls[w].swap
      BY <1>2, <3>1 DEF Serial
    <3>3. calls[v].swap \in Swaps
      BY <2>4, AtStep
    <3>4. rows'[calls[v].swap] = rows[calls[v].swap]
      BY <2>4, <3>2, <3>3
    <3> QED BY <2>1, <3>4 DEF SerialCall
  <2> QED BY <2>2, <2>3, <2>4
<1>3. \A v \in Workers : SerialCall(calls'[v], rows')
  BY <1>1, <1>2
<1> QED BY <1>3 DEF SerialInv

\* A step that leaves rows, signatures and closings alone.
LEMMA SerialQuiet ==
    ASSUME SwapInv, Serial, SerialInv, NEW w \in Workers, NEW d,
           calls' = [calls EXCEPT ![w] = d], SerialCall(d, rows),
           rows' = rows, signed' = signed, closes' = closes
    PROVE  SerialInv'
<1>1. \A s \in Swaps : SerialSwap(s, rows', signed', closes')
  BY SerialInvParts
<1>2. SerialCall(d, rows')
  OBVIOUS
<1> QED BY <1>1, <1>2, SerialStep

LEMMA SerialDrops ==
    ASSUME SwapInv, Serial, SerialInv, NEW w \in Workers, Drops(w),
           rows' = rows, signed' = signed, closes' = closes
    PROVE  SerialInv'
BY SerialIdle, SerialQuiet DEF Drops

LEMMA SerialOn ==
    ASSUME SwapInv, Serial, SerialInv, NEW w \in Workers, calls[w].todo # <<>>,
           Head(calls[w].todo).do \notin {"put", "htlc-get"},
           NEW d \in CallType, d.todo = calls[w].todo, d.swap = calls[w].swap,
           calls' = [calls EXCEPT ![w] = After(d)],
           rows' = rows, signed' = signed, closes' = closes
    PROVE  SerialInv'
<1>1. Script(calls[w].todo) /\ SerialCall(calls[w], rows)
  BY AtStep, SerialInvParts
<1>2. SerialCall(After(d), rows)
  BY <1>1, SerialGoes
<1> QED BY <1>2, SerialQuiet

LEMMA SerialInit == ASSUME Init PROVE SerialInv
<1>1. \A w \in Workers : SerialCall(calls[w], rows)
  BY SerialIdle DEF Init
<1>2. \A s \in Swaps : SerialSwap(s, rows, signed, closes)
  BY DEF Init, SerialSwap, Sessions
<1> QED BY <1>1, <1>2 DEF SerialInv

\* A call that begins where the row is.
LEMMA SerialBegins ==
    ASSUME NEW d, NEW R, NEW e, StartsWith(d.todo, e), InPlace(e, PhaseOf(R[d.swap])),
           e.do # "htlc-put"
    PROVE  SerialCall(d, R)
BY DEF StartsWith, SerialCall

LEMMA SerialStart ==
    ASSUME SwapInv, Serial, SerialInv, NEW w \in Workers, NEW s \in Swaps, Start(w, s)
    PROVE  SerialInv'
<1> DEFINE d == [Idle EXCEPT !.todo = StartScript, !.swap = s]
           e == Step("audit", "init")
<1>1. /\ rows' = rows /\ signed' = signed /\ closes' = closes /\ audit[s] = {}
      /\ calls' = [calls EXCEPT ![w] = d]
  BY DEF Start
<1>2. rows[s] = Absent
  BY <1>1, SwapInvParts DEF SwapOk
<1>3. d.todo = StartScript /\ d.swap = s
  BY IdleIsCall DEF CallType
<1> HIDE DEF d
<1>4. InPlace(e, PhaseOf(rows[s])) /\ e.do # "htlc-put"
  BY <1>2 DEF InPlace, PhaseOf, MayFollow, Stored, Precedes, Step
<1>5. StartsWith(StartScript, e)
  BY StartScriptOk
<1> HIDE DEF e
<1>6. SerialCall(d, rows)
  BY <1>3, <1>4, <1>5, SerialBegins
<1> QED BY <1>1, <1>6, SerialQuiet

LEMMA CheckAlone == StartsWith(<<Step("check", "insert-pushed")>>, Step("check", "insert-pushed"))
<1> DEFINE e == Step("check", "insert-pushed")
           one == <<e>>
<1>1. e \in ScriptSteps
  BY DEF Step, Steps, StepKinds, Phases, ScriptSteps, Shaped
<1> HIDE DEF e
<1>2. one \in Seq(ScriptSteps) /\ Len(one) = 1 /\ one # <<>> /\ Head(one) = e
  BY <1>1
<1> HIDE DEF one
<1>3. StartsWith(one, e)
  BY <1>2 DEF StartsWith, Script
<1> QED BY <1>3 DEF one, e

LEMMA SerialAdvance ==
    ASSUME SwapInv, Serial, SerialInv, NEW w \in Workers, NEW s \in Swaps, Advance(w, s)
    PROVE  SerialInv'
<1> DEFINE script == CASE rows[s].phase = "insert-pushed" -> <<Step("check", "insert-pushed")>>
                       [] rows[s].phase = "aborted" -> InvalidateScript
                       [] OTHER -> RefundScript
           d == [Idle EXCEPT !.swap = s, !.st = StateOf(rows[s]), !.todo = script]
<1>1. /\ rows' = rows /\ signed' = signed /\ closes' = closes
      /\ calls' = [calls EXCEPT ![w] = d] /\ rows[s] # Absent
      /\ rows[s].phase \in {"insert-pushed", "aborted", "invalidated"}
  BY DEF Advance
<1>2. PhaseOf(rows[s]) = rows[s].phase
  BY <1>1 DEF PhaseOf
<1>3. PICK e : /\ StartsWith(script, e) /\ InPlace(e, rows[s].phase)
               /\ e.do # "htlc-put"
  <2>1. CASE rows[s].phase = "insert-pushed"
    <3> DEFINE e == Step("check", "insert-pushed")
    <3>1. script = <<e>> /\ StartsWith(<<e>>, e)
      BY <2>1, CheckAlone
    <3>2. InPlace(e, "insert-pushed") /\ e.do # "htlc-put"
      BY DEF InPlace, Stored, Precedes, Step
    <3> HIDE DEF e, script
    <3> QED BY <2>1, <3>1, <3>2
  <2>2. CASE rows[s].phase = "aborted"
    <3> DEFINE e == Step("audit", "invalidated")
    <3>1. script = InvalidateScript /\ StartsWith(InvalidateScript, e)
      BY <2>2, InvalidateScriptOk
    <3>2. InPlace(e, "aborted") /\ e.do # "htlc-put"
      BY DEF InPlace, MayFollow, Stored, Precedes, Step
    <3> HIDE DEF e, script
    <3> QED BY <2>2, <3>1, <3>2
  <2>3. CASE rows[s].phase = "invalidated"
    <3> DEFINE e == Step("sign", "refunded")
    <3>1. script = RefundScript /\ StartsWith(RefundScript, e)
      BY <2>3, RefundScriptOk
    <3>2. InPlace(e, "invalidated") /\ e.do # "htlc-put"
      BY DEF InPlace, MayFollow, Stored, Precedes, Step
    <3> HIDE DEF e, script
    <3> QED BY <2>3, <3>1, <3>2
  <2> QED BY <1>1, <2>1, <2>2, <2>3
<1> HIDE DEF script
<1>4. d.swap = s /\ d.todo = script
  BY IdleIsCall DEF CallType
<1> HIDE DEF d
<1>5. SerialCall(d, rows)
  BY <1>2, <1>3, <1>4, SerialBegins
<1> QED BY <1>1, <1>5, SerialQuiet

LEMMA SerialCancel ==
    ASSUME SwapInv, Serial, SerialInv, NEW w \in Workers, NEW s \in Swaps, NEW by \in Parties,
           Cancel(w, s, by)
    PROVE  SerialInv'
<1> DEFINE script == CancelScript(rows[s].attempts)
           keep == [rows[s] EXCEPT !.by = by]
           d == [Idle EXCEPT !.swap = s, !.st = StateOf(rows[s]), !.keep = keep, !.todo = script]
           e == Step("audit", "canceled")
<1>1. /\ rows' = rows /\ signed' = signed /\ closes' = closes
      /\ calls' = [calls EXCEPT ![w] = d] /\ rows[s] # Absent
      /\ rows[s].phase \in Early \union {"insert-pushed"}
  BY DEF Cancel, MayCancel
<1>2. rows[s] \in Row
  BY <1>1, SwapInvParts DEF StoresTyped
<1>3. StartsWith(script, e)
  BY <1>2, StateOfRow, CancelScriptOk
<1>4. InPlace(e, PhaseOf(rows[s])) /\ e.do # "htlc-put"
  BY <1>1 DEF InPlace, PhaseOf, MayFollow, Stored, Precedes, Step
<1> HIDE DEF script, keep, e
<1>5. d.swap = s /\ d.todo = script
  BY IdleIsCall DEF CallType
<1> HIDE DEF d
<1>6. SerialCall(d, rows)
  BY <1>3, <1>4, <1>5, SerialBegins
<1> QED BY <1>1, <1>6, SerialQuiet

LEMMA SerialAudit ==
    ASSUME SwapInv, Serial, SerialInv, NEW w \in Workers, Audit(w)
    PROVE  SerialInv'
<1> DEFINE c == calls[w]
           st == Advanced(c.st, Head(c.todo).phase)
           d == [c EXCEPT !.st = st]
<1>1. /\ rows' = rows /\ signed' = signed /\ closes' = closes
      /\ c.todo # <<>> /\ Head(c.todo).do = "audit"
      /\ calls' = [calls EXCEPT ![w] = After(d)] \/ Drops(w)
  BY DEF Audit, At, Goes
<1>2. c \in CallType /\ Head(c.todo) \in ScriptSteps
  BY <1>1, AtStep
<1>3. st \in SwapState
  BY <1>2, AdvancedType DEF ScriptSteps, Steps, CallType
<1> HIDE DEF st
<1>4. d \in CallType /\ d.todo = c.todo /\ d.swap = c.swap
  BY <1>2, <1>3 DEF CallType
<1> HIDE DEF d
<1> QED BY <1>1, <1>4, SerialOn, SerialDrops

LEMMA SerialGet ==
    ASSUME SwapInv, Serial, SerialInv, NEW w \in Workers, PersistGet(w)
    PROVE  SerialInv'
<1> DEFINE c == calls[w]
           keep == IF rows[c.swap] = Absent THEN NoRow ELSE rows[c.swap]
           d == [c EXCEPT !.keep = keep]
<1>1. /\ rows' = rows /\ signed' = signed /\ closes' = closes
      /\ calls' = [calls EXCEPT ![w] = After(d)] /\ c.todo # <<>> /\ Head(c.todo).do = "get"
  BY DEF PersistGet, At, Goes
<1>2. c \in CallType /\ c.swap \in Swaps
  BY <1>1, AtStep
<1>3. keep \in Row
  BY <1>2, IdleIsCall, SwapInvParts DEF StoresTyped, CallType, Idle
<1> HIDE DEF keep
<1>4. d \in CallType /\ d.todo = c.todo /\ d.swap = c.swap
  BY <1>2, <1>3 DEF CallType
<1> HIDE DEF d
<1> QED BY <1>1, <1>4, SerialOn

LEMMA SerialVerify ==
    ASSUME SwapInv, Serial, SerialInv, NEW w \in Workers, Verify(w)
    PROVE  SerialInv'
<1> DEFINE c == calls[w]
<1>1. PICK ok \in BOOLEAN : Goes(w, [c EXCEPT !.ok = ok])
  BY DEF Verify
<1> DEFINE d == [c EXCEPT !.ok = ok]
<1>2. /\ rows' = rows /\ signed' = signed /\ closes' = closes
      /\ calls' = [calls EXCEPT ![w] = After(d)] /\ c.todo # <<>> /\ Head(c.todo).do = "verify"
  BY <1>1 DEF Verify, At, Goes
<1>3. d \in CallType /\ d.todo = c.todo /\ d.swap = c.swap
  BY <1>2, AtStep DEF CallType
<1> HIDE DEF d
<1> QED BY <1>2, <1>3, SerialOn

\* The awaits that touch neither row, signature nor HTLC record.
LEMMA SerialElse ==
    ASSUME SwapInv, Serial, SerialInv, NEW w \in Workers,
           \/ Push(w) \/ PushIgnored(w) \/ Discard(w)
           \/ AuditContended(w) \/ SignRefused(w) \/ SignFails(w) \/ CallFails(w)
    PROVE  SerialInv'
<1>1. CASE Push(w) \/ PushIgnored(w) \/ Discard(w)
  <2>1. /\ rows' = rows /\ signed' = signed /\ closes' = closes
        /\ calls[w].todo # <<>> /\ Head(calls[w].todo).do \notin {"put", "htlc-get"}
        /\ calls' = [calls EXCEPT ![w] = After(calls[w])]
    BY <1>1 DEF Push, PushIgnored, Discard, At, Goes
  <2>2. calls[w] \in CallType
    BY SwapInvParts
  <2> QED BY <2>1, <2>2, SerialOn
<1>2. CASE AuditContended(w) \/ SignRefused(w) \/ SignFails(w) \/ CallFails(w)
  BY <1>2, SerialDrops DEF AuditContended, SignRefused, SignFails, CallFails
<1> QED BY <1>1, <1>2

\* mint_htlc_refund reads the row start_swap has stored.
LEMMA SerialMint ==
    ASSUME SwapInv, Serial, SerialInv, NEW w \in Workers, Mint(w)
    PROVE  SerialInv'
<1> DEFINE c == calls[w]
           g == Step("htlc-get", "init")
           q == Step("htlc-put", "init")
           todo == <<Head(c.todo), g, q>> \o Tail(c.todo)
           d == [c EXCEPT !.todo = todo]
<1>1. /\ rows' = rows /\ closes' = closes /\ signed' = signed
      /\ c.todo # <<>> /\ Head(c.todo).do = "mint"
      /\ calls' = [calls EXCEPT ![w] = After(c)] \/ calls' = [calls EXCEPT ![w] = After(d)]
  <2>1. \E minted \in BOOLEAN :
          Goes(w, [c EXCEPT !.todo = IF minted THEN todo ELSE c.todo])
    BY DEF Mint
  <2>2. c \in CallType /\ [c EXCEPT !.todo = c.todo] = c
    BY AtStep DEF Mint, At, CallType
  <2>3. Goes(w, c) \/ Goes(w, d)
    BY <2>1, <2>2
  <2> QED BY <2>3 DEF Mint, At, Goes
<1>2. /\ c \in CallType /\ Head(c.todo) \in ScriptSteps /\ Head(c.todo) \in Steps
      /\ Tail(c.todo) \in Seq(Steps) /\ SerialCall(c, rows)
  <2>1. c \in CallType /\ Script(c.todo) /\ SerialCall(c, rows)
    BY <1>1, AtStep, SerialInvParts
  <2>2. Head(c.todo) \in ScriptSteps /\ Tail(c.todo) \in Seq(ScriptSteps)
    BY <1>1, <2>1, TailScript
  <2> QED BY <2>1, <2>2 DEF ScriptSteps
<1>3. g \in Steps /\ q \in Steps
  BY DEF Step, Steps, StepKinds, Phases, Early
<1>4. CASE calls' = [calls EXCEPT ![w] = After(c)]
  BY <1>1, <1>2, <1>4, SerialOn
<1>5. CASE calls' = [calls EXCEPT ![w] = After(d)]
  <2>0. PhaseOf(rows[c.swap]) = "init"
    <3>1. Head(c.todo).phase = "init"
      BY <1>1, <1>2 DEF ScriptSteps, Shaped
    <3>2. Stored(Head(c.todo)) /\ InPlace(Head(c.todo), PhaseOf(rows[c.swap]))
      BY <1>1, <1>2 DEF Stored, Precedes, SerialCall
    <3> QED BY <3>1, <3>2 DEF InPlace
  <2>1. InPlace(g, "init") /\ g.do = "htlc-get"
    BY DEF InPlace, Stored, Precedes, Step
  <2> HIDE DEF c, g, q
  <2>2. todo \in Seq(Steps) /\ Len(todo) # 1 /\ Head(Tail(todo)) = g
    BY <1>2, <1>3, MintedTail
  <2> HIDE DEF todo
  <2>3. d \in CallType /\ d.todo = todo /\ d.swap = c.swap
    BY <1>2, <2>2 DEF CallType
  <2> HIDE DEF d
  <2> DEFINE e == After(d)
  <2>4. e = [d EXCEPT !.todo = Tail(todo)]
    BY <2>2, <2>3 DEF After
  <2>5. e.todo = Tail(todo) /\ e.swap = c.swap
    BY <2>3, <2>4 DEF CallType
  <2> HIDE DEF e
  <2>6. SerialCall(e, rows)
    BY <2>0, <2>1, <2>2, <2>5 DEF SerialCall
  <2> QED BY <1>1, <1>5, <2>6, SerialQuiet DEF e
<1> QED BY <1>1, <1>4, <1>5

LEMMA SerialHtlcGet ==
    ASSUME SwapInv, Serial, SerialInv, NEW w \in Workers, HtlcGet(w)
    PROVE  SerialInv'
<1> DEFINE c == calls[w]
           d == [c EXCEPT !.keep = rows[c.swap]]
<1>1. /\ rows' = rows /\ signed' = signed /\ closes' = closes
      /\ calls' = [calls EXCEPT ![w] = After(d)]
      /\ c.todo # <<>> /\ Head(c.todo).do = "htlc-get"
  BY DEF HtlcGet, At, Goes
<1>2. /\ c \in CallType /\ c.swap \in Swaps /\ CallOk(c, rows, audit, sessions, leg)
      /\ Script(c.todo) /\ Head(c.todo) \in ScriptSteps /\ SerialCall(c, rows)
  BY <1>1, AtStep, SerialInvParts
<1>3. rows[c.swap] # Absent /\ rows[c.swap] \in Row
  BY <1>1, <1>2, SwapInvParts DEF StoresTyped, CallOk
<1>4. rows[c.swap].phase = "init"
  <2>1. Head(c.todo).phase = "init" /\ Stored(Head(c.todo))
    BY <1>1, <1>2 DEF ScriptSteps, Shaped, Stored, Precedes
  <2> QED BY <1>1, <1>2, <1>3, <2>1 DEF SerialCall, InPlace, PhaseOf
<1>5. d \in CallType /\ d.todo = c.todo /\ d.swap = c.swap /\ d.keep = rows[c.swap]
  BY <1>2, <1>3 DEF CallType
<1> HIDE DEF c, d
<1>6. SerialCall(After(d), rows)
  BY <1>1, <1>2, <1>4, <1>5, SerialGoes
<1> QED BY <1>1, <1>6, SerialQuiet DEF c

\* Each of the post-check's scripts enters its phase from "insert-pushed".
LEMMA PostCheckPlace ==
    ASSUME NEW st, NEW status
    PROVE  LET script == PostCheck(st, status) IN
           \E e : /\ StartsWith(script, e) /\ e.do \in {"audit", "push"}
                  /\ InPlace(e, "insert-pushed")
<1> DEFINE script == PostCheck(st, status)
<1>1. CASE script = SettleScript
  <2> DEFINE e == Step("audit", "settled")
  <2>1. InPlace(e, "insert-pushed") /\ e.do \in {"audit", "push"}
    BY DEF InPlace, MayFollow, Stored, Precedes, Step
  <2>2. StartsWith(SettleScript, e)
    BY SettleScriptOk
  <2> HIDE DEF e, script
  <2>3. StartsWith(script, e)
    BY <1>1, <2>2
  <2> QED BY <2>1, <2>3 DEF script
<1>2. CASE script = RetryScript
  <2> DEFINE e == Step("push", "insert-pushed")
  <2>1. InPlace(e, "insert-pushed") /\ e.do \in {"audit", "push"}
    BY DEF InPlace, MayFollow, Stored, Precedes, Step
  <2>2. StartsWith(RetryScript, e)
    BY RetryScriptOk
  <2> HIDE DEF e, script
  <2>3. StartsWith(script, e)
    BY <1>2, <2>2
  <2> QED BY <2>1, <2>3 DEF script
<1>3. CASE script = AbortScript
  <2> DEFINE e == Step("audit", "aborted")
  <2>1. InPlace(e, "insert-pushed") /\ e.do \in {"audit", "push"}
    BY DEF InPlace, MayFollow, Stored, Precedes, Step
  <2>2. StartsWith(AbortScript, e)
    BY AbortScriptOk
  <2> HIDE DEF e, script
  <2>3. StartsWith(script, e)
    BY <1>3, <2>2
  <2> QED BY <2>1, <2>3 DEF script
<1> QED BY <1>1, <1>2, <1>3 DEF PostCheck

LEMMA SerialCheck ==
    ASSUME SwapInv, Serial, SerialInv, NEW w \in Workers, Check(w)
    PROVE  SerialInv'
<1> DEFINE c == calls[w]
           h == Head(c.todo)
<1>1. PICK status \in {leg[c.swap], "unknown"} :
        Goes(w, IF h.phase = "pre-checked" THEN [c EXCEPT !.ok = status = "unspent"]
                ELSE [c EXCEPT !.todo = <<h>> \o PostCheck(c.st, status)])
  BY DEF Check
<1>2. rows' = rows /\ signed' = signed /\ closes' = closes /\ c.todo # <<>> /\ h.do = "check"
  BY DEF Check, At
<1>3. c \in CallType /\ h \in ScriptSteps /\ SerialCall(c, rows)
  BY <1>2, AtStep, SerialInvParts
<1>4. CASE h.phase = "pre-checked"
  <2> DEFINE d == [c EXCEPT !.ok = status = "unspent"]
  <2>1. calls' = [calls EXCEPT ![w] = After(d)]
    BY <1>1, <1>4 DEF Goes
  <2>2. (status = "unspent") \in BOOLEAN
    OBVIOUS
  <2>3. d \in CallType /\ d.todo = c.todo /\ d.swap = c.swap
    BY <1>3, <2>2 DEF CallType
  <2> HIDE DEF d
  <2> QED BY <1>2, <2>1, <2>3, SerialOn
<1>5. CASE h.phase # "pre-checked"
  <2> DEFINE script == PostCheck(c.st, status)
             todo == <<h>> \o script
             d == [c EXCEPT !.todo = todo]
  <2>1. calls' = [calls EXCEPT ![w] = After(d)]
    BY <1>1, <1>5 DEF Goes
  <2>2. h.phase = "insert-pushed" /\ Stored(h)
    BY <1>2, <1>3, <1>5 DEF ScriptSteps, Shaped, Stored, Precedes
  <2>3. PhaseOf(rows[c.swap]) = "insert-pushed"
    BY <1>2, <1>3, <2>2 DEF SerialCall, InPlace
  <2>4. PICK e : /\ StartsWith(script, e) /\ e.do \in {"audit", "push"}
                 /\ InPlace(e, "insert-pushed")
    BY PostCheckPlace
  <2> HIDE DEF script
  <2>5. script \in Seq(ScriptSteps) /\ script # <<>> /\ Head(script) = e
    BY <2>4 DEF StartsWith, Script
  <2>6. todo \in Seq(ScriptSteps) /\ Tail(todo) = script /\ Len(todo) # 1
    BY <1>3, <2>5, OneMore
  <2> HIDE DEF todo, c
  <2>7. d \in CallType /\ d.todo = todo /\ d.swap = c.swap
    <3>1. todo \in Seq(Steps)
      BY <2>6 DEF ScriptSteps
    <3> QED BY <1>3, <3>1 DEF CallType
  <2> HIDE DEF d
  <2> DEFINE f == After(d)
  <2>8. f = [d EXCEPT !.todo = script]
    BY <2>6, <2>7 DEF After
  <2>9. f.todo = script /\ f.swap = c.swap
    BY <2>7, <2>8 DEF CallType
  <2> HIDE DEF f
  <2>10. SerialCall(f, rows)
    BY <2>3, <2>4, <2>5, <2>9 DEF SerialCall
  <2> QED BY <1>2, <2>1, <2>10, SerialQuiet DEF f
<1> QED BY <1>4, <1>5

\* A row that has ended has no successor.
LEMMA EndsThere ==
    ASSUME NEW p, NEW q, MayFollow(q, p)
    PROVE  q \notin Terminal /\ (q \in {"invalidated", "refunded"} => p = "refunded")
BY DEF MayFollow, Terminal, Early

\* A call writes the row of its swap in the phase its step is for.
LEMMA SerialUpsert ==
    ASSUME SwapInv, Serial, SerialInv, NEW w \in Workers, NEW row \in Row,
           calls[w].todo # <<>>, Head(calls[w].todo).do \in {"put", "htlc-put"},
           row.phase = Head(calls[w].todo).phase,
           Upsert(calls[w].swap, row), calls' = [calls EXCEPT ![w] = After(calls[w])],
           signed' = signed, closes' = closes
    PROVE  SerialInv'
<1> DEFINE c == calls[w]
           s == c.swap
           h == Head(c.todo)
           q == PhaseOf(rows[s])
<1>1. s \in Swaps /\ c \in CallType /\ Script(c.todo) /\ SerialCall(c, rows)
  BY AtStep, SerialInvParts
<1>2. rows' = [rows EXCEPT ![s] = row]
  BY DEF Upsert
<1>3. rows'[s] = row /\ \A t \in Swaps : t # s => rows'[t] = rows[t]
  BY <1>1, <1>2, SwapInvParts DEF StoresTyped
<1>4. PhaseOf(rows'[s]) = h.phase
  BY <1>3, AbsentRowAssumption DEF PhaseOf
<1>5. MayFollow(q, h.phase) \/ q = h.phase
  BY <1>1 DEF SerialCall, InPlace
<1>6. h.do # "put" => PhaseOf(rows'[s]) = q
  <2>1. h.do # "put" => Stored(h)
    BY DEF Stored, Precedes
  <2> QED BY <1>1, <1>4, <2>1 DEF SerialCall, InPlace
<1> HIDE DEF q
<1>7. SerialSwap(s, rows', signed', closes')
  <2>1. /\ closes[s] \subseteq {q} /\ closes[s] \subseteq Terminal
        /\ signed[s]["refund"] > 0 => q \in {"invalidated", "refunded"}
    BY <1>1, SerialInvParts, SwapInvParts DEF SerialSwap, StoresTyped, q
  <2>2. closes[s] \subseteq {h.phase}
    BY <1>5, <2>1, EndsThere
  <2>3. signed[s]["refund"] > 0 => h.phase \in {"invalidated", "refunded"}
    BY <1>5, <2>1, EndsThere
  <2> QED BY <1>4, <2>2, <2>3 DEF SerialSwap
<1>8. \A t \in Swaps : SerialSwap(t, rows', signed', closes')
  BY <1>3, <1>7, SerialInvParts DEF SerialSwap
<1>9. SerialCall(After(c), rows')
  <2>1. h.do # "htlc-get"
    OBVIOUS
  <2> QED BY <1>1, <1>4, <1>6, <2>1, SerialGoes DEF q
<1> QED BY <1>3, <1>8, <1>9, SerialStep

LEMMA SerialPut ==
    ASSUME SwapInv, Serial, SerialInv, NEW w \in Workers, PersistPut(w)
    PROVE  SerialInv'
<1> DEFINE c == calls[w]
           row == RowOf(c.st, c.keep.htlc, c.keep.by)
<1>1. /\ signed' = signed /\ closes' = closes
      /\ Upsert(c.swap, row) /\ calls' = [calls EXCEPT ![w] = After(c)]
      /\ c.todo # <<>> /\ Head(c.todo).do = "put"
  BY DEF PersistPut, At, Goes
<1>2. c \in CallType /\ Head(c.todo) \in ScriptSteps /\ Fits(c.st, Head(c.todo))
  BY <1>1, AtStep
<1>3. c.st.phase = Head(c.todo).phase /\ c.st.phase \in Phases
  BY <1>1, <1>2 DEF Fits, Precedes, ScriptSteps, Steps
<1>4. c.st \in SwapState /\ c.keep \in Row
  BY <1>2 DEF CallType
<1> HIDE DEF c
<1>5. row \in Row /\ row.phase = c.st.phase
  BY <1>3, <1>4 DEF RowOf, Row, SwapState
<1> HIDE DEF row
<1> QED BY <1>1, <1>3, <1>5, SerialUpsert DEF c

LEMMA SerialHtlcPut ==
    ASSUME SwapInv, Serial, SerialInv, NEW w \in Workers, HtlcPut(w)
    PROVE  SerialInv'
<1> DEFINE c == calls[w]
           row == [c.keep EXCEPT !.htlc = TRUE]
<1>1. /\ signed' = signed /\ closes' = closes
      /\ Upsert(c.swap, row) /\ calls' = [calls EXCEPT ![w] = After(c)]
      /\ c.todo # <<>> /\ Head(c.todo).do = "htlc-put"
  BY DEF HtlcPut, At, Goes
<1>2. /\ c \in CallType /\ Head(c.todo) \in ScriptSteps /\ SerialCall(c, rows)
  BY <1>1, AtStep, SerialInvParts
<1>3. c.keep \in Row /\ c.keep.phase = "init" /\ Head(c.todo).phase = "init"
  BY <1>1, <1>2 DEF CallType, ScriptSteps, Shaped, SerialCall
<1> HIDE DEF c
<1>4. row \in Row /\ row.phase = "init"
  BY <1>3 DEF Row
<1> HIDE DEF row
<1> QED BY <1>1, <1>3, <1>4, SerialUpsert DEF c

LEMMA SerialSign ==
    ASSUME SwapInv, Serial, SerialInv, NEW w \in Workers, Sign(w)
    PROVE  SerialInv'
<1> DEFINE c == calls[w]
           s == c.swap
           h == Head(c.todo)
           k == SessionFor(h.phase)
<1>1. /\ rows' = rows /\ closes' = closes
      /\ signed' = [signed EXCEPT ![s][k] = signed[s][k] + 1]
      /\ c.todo # <<>> /\ h.do = "sign" /\ calls' = [calls EXCEPT ![w] = After(c)]
  BY DEF Sign, At, Goes
<1>2. /\ c \in CallType /\ s \in Swaps /\ h \in ScriptSteps /\ Script(c.todo)
      /\ SerialCall(c, rows)
  BY <1>1, AtStep, SerialInvParts
<1>3. k = "refund" => PhaseOf(rows[s]) = "invalidated"
  <2>1. k = "refund" => h.phase = "refunded"
    BY <1>1, <1>2 DEF SessionFor, ScriptSteps, Shaped
  <2>2. InPlace(h, PhaseOf(rows[s])) /\ ~Stored(h)
    BY <1>1, <1>2 DEF SerialCall, Stored
  <2> QED BY <2>1, <2>2 DEF InPlace, MayFollow
<1>4. \A t \in Swaps : signed'[t]["refund"] = signed[t]["refund"] \/ (t = s /\ k = "refund")
  <2>1. k \in Sessions /\ signed \in [Swaps -> [Sessions -> Nat]]
    BY SwapInvParts DEF StoresTyped, SessionFor, Sessions
  <2> HIDE DEF k, s
  <2> QED BY <1>1, <1>2, <2>1 DEF Sessions
<1>5. \A t \in Swaps : SerialSwap(t, rows', signed', closes')
  BY <1>1, <1>3, <1>4, SerialInvParts DEF SerialSwap
<1>6. SerialCall(After(c), rows')
  BY <1>1, <1>2, SerialGoes
<1> QED BY <1>1, <1>5, <1>6, SerialStep

LEMMA SerialClose ==
    ASSUME SwapInv, Serial, SerialInv, NEW w \in Workers, Close(w)
    PROVE  SerialInv'
<1> DEFINE c == calls[w]
           s == c.swap
           p == Head(c.todo).phase
<1>1. PICK closed \in {closes[s], closes[s] \union {p}} :
        closes' = [closes EXCEPT ![s] = closed]
  BY DEF Close
<1>2. /\ rows' = rows /\ signed' = signed
      /\ c.todo # <<>> /\ Head(c.todo).do = "close" /\ calls' = [calls EXCEPT ![w] = After(c)]
  BY DEF Close, At, Goes
<1>3. s \in Swaps /\ c \in CallType /\ Script(c.todo) /\ SerialCall(c, rows)
  BY <1>2, AtStep, SerialInvParts
<1>4. PhaseOf(rows[s]) = p
  BY <1>2, <1>3 DEF SerialCall, InPlace, Stored, Precedes
<1>5. closes'[s] = closed /\ \A t \in Swaps : t # s => closes'[t] = closes[t]
  BY <1>1, <1>3, SwapInvParts DEF StoresTyped
<1>6. \A t \in Swaps : SerialSwap(t, rows', signed', closes')
  <2>1. SerialSwap(s, rows', signed', closes')
    BY <1>2, <1>3, <1>4, <1>5, SerialInvParts DEF SerialSwap
  <2> QED BY <1>2, <1>5, <2>1, SerialInvParts DEF SerialSwap
<1>7. SerialCall(After(c), rows')
  BY <1>2, <1>3, SerialGoes
<1> QED BY <1>2, <1>6, <1>7, SerialStep

LEMMA SerialNext ==
    ASSUME SwapInv, Serial, SerialInv, [Next]_vars
    PROVE  SerialInv'
<1>1. CASE UNCHANGED vars
  BY <1>1 DEF vars, SerialInv
<1>2. ASSUME NEW w \in Workers, WorkerStep(w)
      PROVE  SerialInv'
  BY <1>2, SerialAudit, SerialGet, SerialPut, SerialMint, SerialHtlcGet, SerialHtlcPut, SerialVerify,
     SerialCheck, SerialSign, SerialClose, SerialElse DEF WorkerStep
<1>3. ASSUME NEW w \in Workers,
             \/ CallFails(w)
             \/ \E s \in Swaps : Start(w, s) \/ Advance(w, s) \/ \E by \in Parties : Cancel(w, s, by)
      PROVE  SerialInv'
  BY <1>3, SerialElse, SerialStart, SerialAdvance, SerialCancel
<1>4. CASE \E s \in Swaps : LegSpent(s)
  BY <1>4 DEF LegSpent, SerialInv
<1>5. CASE Restart
  <2>1. rows' = rows /\ closes' = closes /\ signed' = signed /\ \A w \in Workers : calls'[w] = Idle
    BY <1>5 DEF Restart
  <2> QED BY <2>1, SerialInvParts, SerialIdle DEF SerialInv
<1> QED BY <1>1, <1>2, <1>3, <1>4, <1>5 DEF Next

\* Every call finds the row in the phase its script expects.
LEMMA SerialInvariant == Spec /\ []Serial => [](SwapInv /\ SerialInv)
<1>1. Init => SwapInv /\ SerialInv
  BY SwapInit, SerialInit
<1>2. (SwapInv /\ SerialInv) /\ Serial /\ [Next]_vars => (SwapInv /\ SerialInv)'
  BY SwapNext, SerialNext
<1> QED BY <1>1, <1>2, PTL DEF Spec

\* Terminal phases cannot transition: persist (orchestrator.rs) never overwrites
\* a settled, refunded or canceled row as long as calls on one swap do not
\* overlap, whatever fails, is dropped or restarted.
THEOREM TerminalRowsAreFinal == Spec /\ []Serial => TerminalIsFinal
<1> DEFINE Final == \A s \in Swaps :
                        (rows[s] # Absent /\ rows[s].phase \in Terminal) => rows'[s] = rows[s]
<1>1. ASSUME SwapInv, SerialInv, [Next]_vars PROVE [Final]_vars
  <2>1. CASE \E w \in Workers : PersistPut(w) \/ HtlcPut(w)
    <3>1. PICK w \in Workers : PersistPut(w) \/ HtlcPut(w)
      BY <2>1
    <3> DEFINE c == calls[w]
               h == Head(c.todo)
    <3>2. c.todo # <<>> /\ h.do \in {"put", "htlc-put"}
          /\ \E r : rows' = [rows EXCEPT ![c.swap] = r]
      BY <3>1 DEF PersistPut, HtlcPut, Upsert, At
    <3>3. c.swap \in Swaps /\ h \in ScriptSteps /\ SerialCall(c, rows)
      BY <1>1, <3>2, AtStep, SerialInvParts
    <3>4. InPlace(h, PhaseOf(rows[c.swap]))
      BY <3>2, <3>3 DEF SerialCall
    <3>5. PhaseOf(rows[c.swap]) \notin Terminal
      <4>1. CASE h.do = "put"
        BY <3>4, <4>1, EndsThere DEF InPlace, Stored
      <4>2. CASE h.do = "htlc-put"
        <5>1. h.phase = "init" /\ Stored(h)
          BY <3>3, <4>2 DEF ScriptSteps, Shaped, Stored, Precedes
        <5> QED BY <3>4, <5>1 DEF InPlace, Terminal
      <4> QED BY <3>2, <4>1, <4>2
    <3>6. \A t \in Swaps : t # c.swap => rows'[t] = rows[t]
      BY <1>1, <3>2, <3>3, SwapInvParts DEF StoresTyped
    <3> QED BY <3>5, <3>6 DEF PhaseOf
  <2>2. CASE ~ \E w \in Workers : PersistPut(w) \/ HtlcPut(w)
    <3>1. rows' = rows
      BY <1>1, <2>2 DEF vars, Next, WorkerStep, Audit, AuditContended, PersistGet, Mint, HtlcGet,
         Verify, Check, Push, PushIgnored, Sign, SignRefused, SignFails, Discard, Close,
         CallFails, Start, Advance, Cancel, LegSpent, Restart
    <3> QED BY <3>1
  <2> QED BY <2>1, <2>2
<1>2. TerminalIsFinal <=> [][Final]_vars
  BY DEF TerminalIsFinal
<1> HIDE DEF Final
<1> QED BY <1>1, <1>2, SerialInvariant, PTL DEF Spec

LEMMA ClosedOneWay ==
    ASSUME SwapInv, SerialInv, NEW s \in Swaps
    PROVE  Cardinality(closes[s]) <= 1
<1>1. closes[s] \subseteq {PhaseOf(rows[s])}
  BY SerialInvParts DEF SerialSwap
<1>2. IsFiniteSet({PhaseOf(rows[s])}) /\ Cardinality({PhaseOf(rows[s])}) = 1
  BY FS_Singleton
<1> QED BY <1>1, <1>2, FS_Subset

\* close_htlc_if_any closes the backup record one way only when calls on one swap
\* do not overlap, whatever fails, is dropped or restarted.
THEOREM SerialClosesOneWay ==
    Spec /\ []Serial => [](\A s \in Swaps : Cardinality(closes[s]) <= 1)
<1>1. SwapInv /\ SerialInv => \A s \in Swaps : Cardinality(closes[s]) <= 1
  BY ClosedOneWay
<1> QED BY <1>1, SerialInvariant, PTL

\* A refund signature is final when calls on one swap do not overlap: the row it
\* was made from can become nothing but refunded, whatever fails or is restarted.
THEOREM SerialRefundsStand ==
    Spec /\ []Serial =>
        [](\A s \in Swaps : signed[s]["refund"] > 0 => InPhase(s, {"invalidated", "refunded"}))
<1>1. SwapInv /\ SerialInv =>
        \A s \in Swaps : signed[s]["refund"] > 0 => InPhase(s, {"invalidated", "refunded"})
  BY SerialInvParts DEF SerialSwap, PhaseOf, InPhase
<1> QED BY <1>1, SerialInvariant, PTL
=============================================================================
