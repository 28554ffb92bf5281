-------------------------- MODULE DiagnosticRunProofs --------------------------
(***************************************************************************)
(* Proofs about DiagnosticRun, for every plan, any number of initializers  *)
(* and of console messages, and an exception at every await.               *)
(***************************************************************************)
EXTENDS DiagnosticRun, SequenceTheorems, TLAPS

(***************************************************************************)
(* Where in its plan a run is: the place of the navigation, and of the     *)
(* step that writes the artifact (past the end of a plan without one).     *)
(***************************************************************************)
Plans == {"open", "screenshot", "trace", "console", "persisted_console"}
ConsolePlans == {"console", "persisted_console"}

NavigateAt(k) == IF k \in {"open", "screenshot"} THEN 2 ELSE 3
EvidenceAt(k) == IF k = "screenshot" THEN 3 ELSE 4

Rest(k, i) == SubSeq(Steps(k), i, Len(Steps(k)))

(***************************************************************************)
(* The inductive invariant, by phase.  In the body it says which step is   *)
(* next and what the steps before it have left: the artifact is of the     *)
(* messages kept so far until the listener is asked to go, and after that  *)
(* unless it stayed.                                                       *)
(***************************************************************************)
Types ==
    /\ kind \in Plans /\ chain \in Nat /\ applied \in 0..chain
    /\ events \in Nat /\ navigations \in Nat
    /\ artifact \in Nat \cup {None} /\ count \in Nat \cup {None}
    /\ error \in Failures \cup {None}

\* The page, its recording and its context go with what holds them.
Holders ==
    /\ recording \/ listening => context = "open"
    /\ context = "open" => browser = "up"

Nothing ==
    /\ applied = 0 /\ events = 0 /\ navigations = 0 /\ artifact = None /\ count = None
    /\ ~recording /\ ~listening /\ temp # "there" /\ error = None
    /\ context = "none" /\ handle = "none"

Entering ==
    /\ Nothing
    /\ \/ todo = <<"launch", "context">> /\ browser = "none" /\ runtime = "none"
       \/ todo = <<"context">> /\ browser = "up" /\ runtime = "open" /\ stacked

InBody ==
    /\ browser = "up" /\ runtime = "open" /\ stacked
    /\ context = "open" /\ handle = "open" /\ error = None /\ count = None

\* Some initializers have not run yet.
Initializing ==
    /\ applied < chain /\ todo = Begin(chain - applied) \o Steps(kind)
    /\ navigations = 0 /\ artifact = None
    /\ ~recording /\ ~listening /\ temp # "there"

Progress(i) ==
    /\ applied = chain /\ todo = Rest(kind, i)
    /\ navigations = IF i > NavigateAt(kind) THEN 1 ELSE 0
    /\ artifact # None <=> i > EvidenceAt(kind)
    /\ recording => kind = "trace" /\ i <= EvidenceAt(kind)
    /\ temp = "there" => i = EvidenceAt(kind) /\ kind \in {"screenshot", "trace"}
    /\ kind \in ConsolePlans /\ i > EvidenceAt(kind) =>
          /\ artifact <= events
          /\ kind = "console" => artifact = events \/ (i > 5 /\ listening)

Working == Initializing \/ \E i \in 1..Len(Steps(kind)) + 1 : Progress(i)

Evidence ==
    /\ artifact # None => applied = chain /\ navigations = 1
    /\ count # None =>
          /\ ~recording
          /\ kind # "open" => artifact # None
          /\ kind \in ConsolePlans =>
                /\ artifact <= count
                /\ kind = "console" /\ handle = "open" => listening \/ artifact = count

Leaving ==
    /\ temp # "there" /\ Evidence
    /\ todo \in {<<"final", "context", "runtime">>, <<"context", "runtime">>,
                 <<"runtime">>, <<>>}
    /\ todo \in {<<"runtime">>, <<>>} => handle # "open"
    /\ runtime \in {"none", "open", "closed"}
    /\ runtime = "none" => context = "none" /\ applied = 0 /\ error # None
    /\ runtime = "open" => stacked /\ todo # <<>>
    /\ runtime = "closed" /\ browser = "up" => error # None

RunInv ==
    /\ Types /\ Holders
    /\ phase \in {"enter", "body", "exit", "ended"}
    /\ phase = "enter" => Entering
    /\ phase = "body" => InBody /\ Working
    /\ phase = "exit" => Leaving
    /\ phase = "ended" => Leaving /\ todo = <<>>

-----------------------------------------------------------------------------
(***************************************************************************)
(* The plans as sequences.                                                 *)
(***************************************************************************)
StepNames == {"initialize", "start", "page", "attach", "navigate", "write", "persist",
              "capture", "detach", "title"}

LEMMA StepsAreNamed ==
    ASSUME NEW k \in Plans
    PROVE  Steps(k) \in Seq(StepNames) /\ Len(Steps(k)) \in 3..7
<1>1. CASE k = "open"
  <2>1. Steps(k) = <<"page", "navigate", "title">>
    BY <1>1 DEF Steps
  <2> QED
    BY <2>1 DEF StepNames
<1>2. CASE k = "screenshot"
  <2>1. Steps(k) = <<"page", "navigate", "capture", "title">>
    BY <1>2 DEF Steps
  <2> QED
    BY <2>1 DEF StepNames
<1>3. CASE k = "trace"
  <2>1. Steps(k) = <<"start", "page", "navigate", "capture", "title">>
    BY <1>3 DEF Steps
  <2> QED
    BY <2>1 DEF StepNames
<1>4. CASE k = "console"
  <2>1. Steps(k) = <<"page", "attach", "navigate", "write", "detach", "title">>
    BY <1>4 DEF Steps
  <2> QED
    BY <2>1 DEF StepNames
<1>5. CASE k = "persisted_console"
  <2>1. Steps(k) = <<"page", "attach", "navigate", "write", "persist", "detach", "title">>
    BY <1>5 DEF Steps
  <2> QED
    BY <2>1 DEF StepNames
<1> QED
  BY <1>1, <1>2, <1>3, <1>4, <1>5 DEF Plans

LEMMA RestOfPlan ==
    ASSUME NEW k \in Plans
    PROVE  /\ Rest(k, 1) = Steps(k) /\ Rest(k, Len(Steps(k)) + 1) = <<>>
           /\ \A i \in 1..Len(Steps(k)) :
                 /\ Rest(k, i) # <<>> /\ Head(Rest(k, i)) = Steps(k)[i]
                 /\ Tail(Rest(k, i)) = Rest(k, i + 1)
<1> DEFINE s == Steps(k)
<1>1. s \in Seq(StepNames) /\ Len(s) \in 3..7
  BY StepsAreNamed
<1> HIDE DEF s
<1>2. SubSeq(s, 1, Len(s)) = s
  BY <1>1, SubSeqFull
<1>3. SubSeq(s, Len(s) + 1, Len(s)) = <<>>
  BY <1>1, SubSeqEmpty
<1>4. ASSUME NEW i \in 1..Len(s)
      PROVE  /\ SubSeq(s, i, Len(s)) # <<>> /\ Head(SubSeq(s, i, Len(s))) = s[i]
             /\ Tail(SubSeq(s, i, Len(s))) = SubSeq(s, i + 1, Len(s))
  <2>1. Len(s) \in i..Len(s) /\ i \in Int /\ Len(s) \in Int
    BY <1>1
  <2>2. /\ Head(SubSeq(s, i, Len(s))) = s[i]
        /\ Tail(SubSeq(s, i, Len(s))) = SubSeq(s, i + 1, Len(s))
    BY <1>1, <2>1, HeadTailOfSubSeq
  <2>3. \A j \in i..Len(s) : s[j] \in StepNames
    BY <1>1
  <2>4. Len(SubSeq(s, i, Len(s))) = Len(s) - i + 1
    BY <1>1, <2>1, <2>3, SubSeqProperties
  <2>5. SubSeq(s, i, Len(s)) # <<>>
    <3> DEFINE u == SubSeq(s, i, Len(s))
    <3>1. Len(u) # 0
      BY <1>1, <2>1, <2>4
    <3> HIDE DEF u
    <3>2. u # <<>>
      BY <3>1
    <3> QED
      BY <3>2 DEF u
  <2> QED
    BY <2>2, <2>5
<1> QED
  BY <1>2, <1>3, <1>4 DEF Rest, s

LEMMA InitializersLeft ==
    ASSUME NEW n \in Nat \ {0}, NEW k \in Plans
    PROVE  LET s == Begin(n) \o Steps(k) IN
           /\ s # <<>> /\ Head(s) = "initialize"
           /\ Tail(s) = Begin(n - 1) \o Steps(k)
<1> DEFINE b == Begin(n)
           c == Begin(n - 1)
           t == Steps(k)
           s == b \o t
<1>1. t \in Seq(StepNames)
  BY StepsAreNamed
<1>2. /\ b \in Seq(StepNames) /\ Len(b) = n /\ \A i \in 1..n : b[i] = "initialize"
      /\ c \in Seq(StepNames) /\ Len(c) = n - 1 /\ \A i \in 1..n-1 : c[i] = "initialize"
  <2>1. \A m \in Nat :
           /\ Begin(m) \in [1..m -> StepNames]
           /\ \A i \in 1..m : Begin(m)[i] = "initialize"
    BY DEF Begin, StepNames
  <2>2. ASSUME NEW m \in Nat PROVE Begin(m) \in Seq(StepNames) /\ Len(Begin(m)) = m
    <3> DEFINE d == Begin(m)
    <3>1. d \in [1..m -> StepNames]
      BY <2>1
    <3> HIDE DEF d
    <3>2. d \in Seq(StepNames) /\ Len(d) = m
      BY <3>1
    <3> QED
      BY <3>2 DEF d
  <2>3. n \in Nat /\ n - 1 \in Nat
    OBVIOUS
  <2> QED
    BY <2>1, <2>2, <2>3
<1> HIDE DEF b, c, t
<1>3. /\ s \in Seq(StepNames) /\ Len(s) = n + Len(t)
      /\ \A i \in 1..n + Len(t) : s[i] = IF i <= n THEN b[i] ELSE t[i - n]
  BY <1>1, <1>2, ConcatProperties
<1>4. /\ c \o t \in Seq(StepNames) /\ Len(c \o t) = n - 1 + Len(t)
      /\ \A i \in 1..n - 1 + Len(t) : (c \o t)[i] = IF i <= n - 1 THEN c[i] ELSE t[i - (n - 1)]
  <2>1. /\ c \o t \in Seq(StepNames) /\ Len(c \o t) = Len(c) + Len(t)
        /\ \A i \in 1..Len(c) + Len(t) : (c \o t)[i] = IF i <= Len(c) THEN c[i] ELSE t[i - Len(c)]
    BY <1>1, <1>2, ConcatProperties
  <2> QED
    BY <1>2, <2>1
<1> HIDE DEF s
<1>5. Len(t) \in Nat
  BY <1>1
<1>6. /\ s # <<>> /\ Head(s) = s[1] /\ Tail(s) \in Seq(StepNames) /\ Len(Tail(s)) = Len(s) - 1
      /\ \A i \in 1..Len(s) - 1 : Tail(s)[i] = s[i + 1]
  BY <1>3, <1>5
<1>7. Head(s) = "initialize"
  BY <1>2, <1>3, <1>5, <1>6
<1>8. Tail(s) = c \o t
  <2> DEFINE u == Tail(s)
             v == c \o t
  <2>1. u \in Seq(StepNames) /\ v \in Seq(StepNames) /\ Len(u) = Len(v)
    BY <1>3, <1>4, <1>5, <1>6
  <2>2. ASSUME NEW i \in 1..Len(u) PROVE u[i] = v[i]
    <3>1. i \in 1..n - 1 + Len(t) /\ i + 1 \in 1..n + Len(t)
      BY <1>3, <1>5, <1>6
    <3>2. u[i] = IF i + 1 <= n THEN b[i + 1] ELSE t[i + 1 - n]
      BY <1>3, <1>5, <1>6, <3>1
    <3>3. v[i] = IF i <= n - 1 THEN c[i] ELSE t[i - (n - 1)]
      BY <1>4, <3>1
    <3>4. CASE i <= n - 1
      <4>1. b[i + 1] = "initialize" /\ c[i] = "initialize" /\ i + 1 <= n
        BY <1>2, <3>1, <3>4
      <4> QED
        BY <3>2, <3>3, <3>4, <4>1
    <3>5. CASE ~(i <= n - 1)
      <4>1. ~(i + 1 <= n) /\ i + 1 - n = i - (n - 1)
        BY <1>5, <3>1, <3>5
      <4> QED
        BY <3>2, <3>3, <3>5, <4>1
    <3> QED
      BY <3>4, <3>5
  <2> HIDE DEF u, v
  <2>3. u = v
    BY <2>1, <2>2, SeqEqual
  <2> QED
    BY <2>3 DEF u, v
<1> QED
  BY <1>6, <1>7, <1>8 DEF s, b, c, t

LEMMA NoInitializers ==
    ASSUME NEW k \in Plans
    PROVE  Begin(0) \o Steps(k) = Steps(k)
<1>1. Begin(0) = <<>>
  BY DEF Begin
<1> QED
  BY <1>1, StepsAreNamed, ConcatEmptySeq

\* Which steps a plan has, and where.
LEMMA PlanFacts ==
    ASSUME NEW k \in Plans, NEW i \in 1..Len(Steps(k))
    PROVE  LET x == Steps(k)[i] IN
           /\ NavigateAt(k) < EvidenceAt(k) /\ EvidenceAt(k) <= Len(Steps(k)) + 1
           /\ k # "open" => EvidenceAt(k) <= Len(Steps(k))
           /\ x = "navigate" <=> i = NavigateAt(k)
           /\ x \in {"write", "capture"} <=> i = EvidenceAt(k)
           /\ x = "start" => k = "trace" /\ i = 1
           /\ x = "capture" => k \in {"screenshot", "trace"}
           /\ x = "write" => k \in ConsolePlans
           /\ k = "console" => (x = "detach" <=> i = 5)
           /\ x = "attach" => i = 2
           /\ x # "initialize"
<1> USE DEF NavigateAt, EvidenceAt, ConsolePlans
<1>1. CASE k = "open"
  <2>1. Steps(k) = <<"page", "navigate", "title">>
    BY <1>1 DEF Steps
  <2>2. i \in 1..3 /\ Len(Steps(k)) = 3
    BY <2>1
  <2>3. \/ i = 1 /\ Steps(k)[i] = "page"
        \/ i = 2 /\ Steps(k)[i] = "navigate"
        \/ i = 3 /\ Steps(k)[i] = "title"
    BY <2>1, <2>2
  <2> QED
    BY <1>1, <2>2, <2>3
<1>2. CASE k = "screenshot"
  <2>1. Steps(k) = <<"page", "navigate", "capture", "title">>
    BY <1>2 DEF Steps
  <2>2. i \in 1..4 /\ Len(Steps(k)) = 4
    BY <2>1
  <2>3. \/ i = 1 /\ Steps(k)[i] = "page"
        \/ i = 2 /\ Steps(k)[i] = "navigate"
        \/ i = 3 /\ Steps(k)[i] = "capture"
        \/ i = 4 /\ Steps(k)[i] = "title"
    BY <2>1, <2>2
  <2> QED
    BY <1>2, <2>2, <2>3
<1>3. CASE k = "trace"
  <2>1. Steps(k) = <<"start", "page", "navigate", "capture", "title">>
    BY <1>3 DEF Steps
  <2>2. i \in 1..5 /\ Len(Steps(k)) = 5
    BY <2>1
  <2>3. \/ i = 1 /\ Steps(k)[i] = "start"
        \/ i = 2 /\ Steps(k)[i] = "page"
        \/ i = 3 /\ Steps(k)[i] = "navigate"
        \/ i = 4 /\ Steps(k)[i] = "capture"
        \/ i = 5 /\ Steps(k)[i] = "title"
    BY <2>1, <2>2
  <2> QED
    BY <1>3, <2>2, <2>3
<1>4. CASE k = "console"
  <2>1. Steps(k) = <<"page", "attach", "navigate", "write", "detach", "title">>
    BY <1>4 DEF Steps
  <2>2. i \in 1..6 /\ Len(Steps(k)) = 6
    BY <2>1
  <2>3. \/ i = 1 /\ Steps(k)[i] = "page"
        \/ i = 2 /\ Steps(k)[i] = "attach"
        \/ i = 3 /\ Steps(k)[i] = "navigate"
        \/ i = 4 /\ Steps(k)[i] = "write"
        \/ i = 5 /\ Steps(k)[i] = "detach"
        \/ i = 6 /\ Steps(k)[i] = "title"
    BY <2>1, <2>2
  <2> QED
    BY <1>4, <2>2, <2>3
<1>5. CASE k = "persisted_console"
  <2>1. Steps(k) = <<"page", "attach", "navigate", "write", "persist", "detach", "title">>
    BY <1>5 DEF Steps
  <2>2. i \in 1..7 /\ Len(Steps(k)) = 7
    BY <2>1
  <2>3. \/ i = 1 /\ Steps(k)[i] = "page"
        \/ i = 2 /\ Steps(k)[i] = "attach"
        \/ i = 3 /\ Steps(k)[i] = "navigate"
        \/ i = 4 /\ Steps(k)[i] = "write"
        \/ i = 5 /\ Steps(k)[i] = "persist"
        \/ i = 6 /\ Steps(k)[i] = "detach"
        \/ i = 7 /\ Steps(k)[i] = "title"
    BY <2>1, <2>2
  <2> QED
    BY <1>5, <2>2, <2>3
<1> QED
  BY <1>1, <1>2, <1>3, <1>4, <1>5 DEF Plans

LEMMA CloseSteps ==
    /\ Tail(<<"launch", "context">>) = <<"context">> /\ Head(<<"launch", "context">>) = "launch"
    /\ Head(<<"context">>) = "context"
    /\ Tail(<<"final", "context", "runtime">>) = <<"context", "runtime">>
    /\ Head(<<"final", "context", "runtime">>) = "final"
    /\ Tail(<<"context", "runtime">>) = <<"runtime">>
    /\ Head(<<"context", "runtime">>) = "context"
    /\ Tail(<<"runtime">>) = <<>> /\ Head(<<"runtime">>) = "runtime"
    /\ <<"runtime">> # <<>> /\ <<"context", "runtime">> # <<>> /\ <<"runtime">> # <<"context", "runtime">>
    /\ <<"final", "context", "runtime">> # <<>> /\ <<"final", "context", "runtime">> # <<"runtime">>
OBVIOUS

-----------------------------------------------------------------------------
(***************************************************************************)
(* The entry.                                                              *)
(***************************************************************************)
LEMMA InvInit == Init => RunInv
<1> SUFFICES ASSUME Init PROVE RunInv
  OBVIOUS
<1>1. kind \in Plans /\ chain \in Nat /\ 0 \in 0..chain
  BY DiagnosticAssumption DEF Init, Plans
<1>2. Types
  BY <1>1 DEF Init, Types
<1>3. Holders /\ Entering
  BY DEF Init, Holders, Entering, Nothing
<1> QED
  BY <1>2, <1>3 DEF Init, RunInv

LEMMA LaunchStep ==
    ASSUME RunInv, Launch \/ LaunchRaises
    PROVE  RunInv'
<1>1. phase = "enter" /\ todo # <<>> /\ Head(todo) = "launch" /\ Entering /\ Types
  BY DEF Launch, LaunchRaises, At, RunInv
<1>2. Nothing /\ todo = <<"launch", "context">> /\ browser = "none" /\ runtime = "none"
  BY <1>1, CloseSteps DEF Entering
<1>3. CASE Launch
  <2>1. /\ todo' = <<"context">> /\ browser' = "up" /\ runtime' = "open" /\ stacked'
        /\ UNCHANGED <<kind, chain, phase, error, context, handle, applied, recording,
                       listening, events, navigations, temp, artifact, count>>
    BY <1>2, <1>3, CloseSteps DEF Launch, Done, plan
  <2>2. Types'
    BY <1>1, <2>1 DEF Types
  <2>3. Holders' /\ Entering'
    BY <1>2, <2>1 DEF Nothing, Holders, Entering
  <2> QED
    BY <1>1, <2>1, <2>2, <2>3 DEF RunInv
<1>4. CASE LaunchRaises
  <2>1. PICK e \in Failures : Abort(e)
    BY <1>4 DEF LaunchRaises
  <2>2. /\ phase' = "exit" /\ todo' = <<"context", "runtime">> /\ error' = e
        /\ UNCHANGED <<kind, chain, stacked, context, handle, runtime, applied, recording,
                       listening, events, navigations, temp, artifact, count>>
    BY <1>4, <2>1 DEF LaunchRaises, Abort, plan
  <2>3. Types'
    BY <1>1, <2>2 DEF Types
  <2>4. error' # None
    BY <2>2, DiagnosticAssumption DEF Failures
  <2>5. Holders' /\ Leaving'
    BY <1>2, <2>2, <2>4, CloseSteps DEF Nothing, Holders, Leaving, Evidence
  <2> QED
    BY <2>2, <2>3, <2>5 DEF RunInv
<1> QED
  BY <1>3, <1>4

\* The body goes on with an initializer, or with the plan's own first step.
LEMMA BodyBegins ==
    ASSUME Types', NEW n \in 0..chain, chain' = chain, applied' = n,
           todo' = Begin(chain - n) \o Steps(kind'),
           navigations' = 0, artifact' = None, ~recording', ~listening', temp' # "there"
    PROVE  Working'
<1>1. CASE n < chain
  <2>1. Initializing'
    BY <1>1 DEF Initializing
  <2> QED
    BY <2>1 DEF Working
<1>2. CASE ~(n < chain)
  <2>1. n = chain /\ chain - n = 0 /\ kind' \in Plans
    BY <1>2 DEF Types
  <2>2. todo' = Rest(kind', 1)
    BY <2>1, NoInitializers, RestOfPlan
  <2>3. 1 \in 1..Len(Steps(kind')) + 1
    BY <2>1, StepsAreNamed
  <2>4. Progress(1)'
    BY <2>1, <2>2 DEF Progress, NavigateAt, EvidenceAt
  <2> QED
    BY <2>3, <2>4 DEF Working
<1> QED
  BY <1>1, <1>2

LEMMA ContextStep ==
    ASSUME RunInv, NewContext \/ NewContextRaises
    PROVE  RunInv'
<1>1. phase = "enter" /\ todo # <<>> /\ Head(todo) = "context" /\ Entering /\ Types
  BY DEF NewContext, NewContextRaises, At, RunInv
<1>2. Nothing /\ browser = "up" /\ runtime = "open" /\ stacked
  BY <1>1, CloseSteps DEF Entering
<1>3. CASE NewContext
  <2>1. /\ context' = "open" /\ handle' = "open" /\ phase' = "body"
        /\ todo' = Begin(chain) \o Steps(kind)
        /\ UNCHANGED <<kind, chain, browser, stacked, runtime, error, applied, recording,
                       listening, events, navigations, temp, artifact, count>>
    BY <1>3 DEF NewContext, plan
  <2>2. Types'
    BY <1>1, <2>1 DEF Types
  <2>3. Holders' /\ InBody'
    BY <1>2, <2>1 DEF Nothing, Holders, InBody
  <2>4. Working'
    <3>1. chain - 0 = chain /\ 0 \in 0..chain
      BY <1>1 DEF Types
    <3>2. todo' = Begin(chain - 0) \o Steps(kind') /\ chain' = chain
      BY <2>1, <3>1
    <3>3. /\ applied' = 0 /\ navigations' = 0 /\ artifact' = None
          /\ ~recording' /\ ~listening' /\ temp' # "there"
      BY <1>2, <2>1 DEF Nothing
    <3> QED
      BY <2>2, <3>1, <3>2, <3>3, BodyBegins
  <2> QED
    BY <2>1, <2>2, <2>3, <2>4 DEF RunInv
<1>4. CASE NewContextRaises
  <2>1. PICK e \in Failures : Abort(e)
    BY <1>4 DEF NewContextRaises
  <2>2. /\ phase' = "exit" /\ todo' = <<"context", "runtime">> /\ error' = e
        /\ UNCHANGED <<kind, chain, browser, stacked, handle, runtime, applied, recording,
                       listening, events, navigations, temp, artifact, count>>
    BY <1>4, <2>1 DEF NewContextRaises, Abort, plan
  <2>3. Types'
    BY <1>1, <2>2 DEF Types
  <2>4. Holders' /\ Leaving'
    BY <1>2, <2>2, CloseSteps DEF Nothing, Holders, Leaving, Evidence
  <2> QED
    BY <2>2, <2>3, <2>4 DEF RunInv
<1> QED
  BY <1>3, <1>4

-----------------------------------------------------------------------------
(***************************************************************************)
(* The body.                                                               *)
(***************************************************************************)
LEMMA InitializersFirst ==
    ASSUME Types, Working, At("body", "initialize")
    PROVE  /\ Initializing /\ Tail(todo) = Begin(chain - (applied + 1)) \o Steps(kind)
           /\ applied + 1 \in 0..chain
<1>1. CASE Initializing
  <2>1. applied \in Nat /\ chain \in Nat /\ applied < chain /\ kind \in Plans
    BY <1>1 DEF Types, Initializing
  <2>2. chain - applied \in Nat \ {0} /\ chain - applied - 1 = chain - (applied + 1)
        /\ applied + 1 \in 0..chain
    BY <2>1
  <2>3. Tail(todo) = Begin(chain - applied - 1) \o Steps(kind)
    BY <1>1, <2>1, <2>2, InitializersLeft DEF Initializing
  <2> QED
    BY <1>1, <2>2, <2>3
<1>2. CASE \E i \in 1..Len(Steps(kind)) + 1 : Progress(i)
  <2>1. PICK i \in 1..Len(Steps(kind)) + 1 : Progress(i)
    BY <1>2
  <2>2. kind \in Plans /\ Len(Steps(kind)) \in Nat
    BY StepsAreNamed DEF Types
  <2>3. i \in 1..Len(Steps(kind))
    <3>1. todo = Rest(kind, i) /\ todo # <<>>
      BY <2>1 DEF At, Progress
    <3>2. i # Len(Steps(kind)) + 1
      BY <2>2, <3>1, RestOfPlan
    <3> QED
      BY <2>2, <3>2
  <2>4. Head(todo) = Steps(kind)[i]
    BY <2>1, <2>2, <2>3, RestOfPlan DEF Progress
  <2> QED
    BY <2>2, <2>3, <2>4, PlanFacts DEF At
<1> QED
  BY <1>1, <1>2 DEF Working

\* A step of the plan itself, at its place.
LEMMA PlanStep ==
    ASSUME Types, Working, NEW x, x # "initialize", At("body", x)
    PROVE  \E i \in 1..Len(Steps(kind)) :
              /\ Progress(i) /\ Steps(kind)[i] = x
              /\ Tail(todo) = Rest(kind, i + 1)
<1>1. kind \in Plans /\ Len(Steps(kind)) \in Nat
  BY StepsAreNamed DEF Types
<1>2. ~Initializing
  <2> SUFFICES ASSUME Initializing PROVE FALSE
    OBVIOUS
  <2>1. chain - applied \in Nat \ {0}
    BY DEF Types, Initializing
  <2>2. Head(todo) = "initialize"
    BY <1>1, <2>1, InitializersLeft DEF Initializing
  <2> QED
    BY <2>2 DEF At
<1>3. PICK i \in 1..Len(Steps(kind)) + 1 : Progress(i)
  BY <1>2 DEF Working
<1>4. i \in 1..Len(Steps(kind))
  <2>1. todo = Rest(kind, i) /\ todo # <<>>
    BY <1>3 DEF At, Progress
  <2>2. i # Len(Steps(kind)) + 1
    BY <1>1, <2>1, RestOfPlan
  <2> QED
    BY <1>1, <2>2
<1>5. Head(todo) = Steps(kind)[i] /\ Tail(todo) = Rest(kind, i + 1)
  BY <1>1, <1>3, <1>4, RestOfPlan DEF Progress
<1> QED
  BY <1>3, <1>4, <1>5 DEF At

LEMMA PlanOver ==
    ASSUME Types, Working, todo = <<>>
    PROVE  Progress(Len(Steps(kind)) + 1)
<1>1. kind \in Plans /\ Len(Steps(kind)) \in Nat
  BY StepsAreNamed DEF Types
<1>2. ~Initializing
  <2> SUFFICES ASSUME Initializing PROVE FALSE
    OBVIOUS
  <2>1. chain - applied \in Nat \ {0}
    BY DEF Types, Initializing
  <2> QED
    BY <1>1, <2>1, InitializersLeft DEF Initializing
<1>3. PICK i \in 1..Len(Steps(kind)) + 1 : Progress(i)
  BY <1>2 DEF Working
<1>4. i = Len(Steps(kind)) + 1
  <2>1. Rest(kind, i) = <<>>
    BY <1>3 DEF Progress
  <2> QED
    BY <1>1, <1>3, <2>1, RestOfPlan
<1> QED
  BY <1>3, <1>4

\* An exception leaves the body: the artifact, if there is one, is evidence.
LEMMA LeaveStep ==
    ASSUME InBody, Holders, Types', temp' # "there", NEW e \in Failures, Leave(e),
           UNCHANGED <<browser, stacked, context, handle, runtime, count>>,
           artifact' # None => applied' = chain /\ navigations' = 1
    PROVE  RunInv'
<1>1. phase' = "exit" /\ todo' = <<"final", "context", "runtime">> /\ chain' = chain
  BY DEF Leave
<1>2. Evidence'
  BY <1>1 DEF Evidence, InBody
<1>3. Holders'
  BY DEF Holders, InBody
<1>4. Leaving'
  BY <1>1, <1>2, CloseSteps DEF Leaving, InBody
<1> QED
  BY <1>1, <1>3, <1>4 DEF RunInv

\* Or the step returns, and the next is awaited.
LEMMA DoneStep ==
    ASSUME InBody, Holders, Types', Working', phase' = "body",
           UNCHANGED <<error, browser, stacked, context, handle, runtime, count>>
    PROVE  RunInv'
<1>1. Holders' /\ InBody'
  BY DEF Holders, InBody
<1> QED
  BY <1>1 DEF RunInv


LEMMA InitializeStep ==
    ASSUME RunInv, Initialize \/ InitializerRaises
    PROVE  RunInv'
<1>1. At("body", "initialize") /\ Types /\ Holders /\ InBody /\ Working
  BY DEF Initialize, InitializerRaises, At, RunInv
<1>2. /\ Initializing /\ Tail(todo) = Begin(chain - (applied + 1)) \o Steps(kind)
      /\ applied + 1 \in 0..chain
  BY <1>1, InitializersFirst
<1>3. CASE Initialize
  <2>1. /\ applied' = applied + 1 /\ todo' = Tail(todo)
        /\ UNCHANGED <<kind, chain, phase, error, browser, stacked, context, handle, runtime,
                       recording, listening, events, navigations, temp, artifact, count>>
    BY <1>3 DEF Initialize, Done, native
  <2>2. Types'
    BY <1>1, <1>2, <2>1 DEF Types
  <2>3. /\ todo' = Begin(chain - (applied + 1)) \o Steps(kind')
        /\ navigations' = 0 /\ artifact' = None /\ ~recording' /\ ~listening' /\ temp' # "there"
    BY <1>2, <2>1 DEF Initializing
  <2>4. Working'
    BY <1>2, <2>1, <2>2, <2>3, BodyBegins
  <2> QED
    BY <1>1, <2>1, <2>2, <2>4, DoneStep DEF At
<1>4. CASE InitializerRaises
  <2>1. PICK e \in Failures : Leave(e)
    BY <1>4 DEF InitializerRaises
  <2>2. UNCHANGED <<kind, chain, browser, stacked, context, handle, runtime, applied, recording,
                    listening, events, navigations, temp, artifact, count>>
    BY <1>4, <2>1 DEF InitializerRaises, Leave, native, plan
  <2>3. Types'
    BY <1>1, <2>1, <2>2 DEF Types, Leave
  <2>4. temp' # "there" /\ artifact' = None
    BY <1>2, <2>2 DEF Initializing
  <2> QED
    BY <1>1, <2>1, <2>2, <2>3, <2>4, LeaveStep
<1> QED
  BY <1>3, <1>4

\* What the place of a run in its plan says of its evidence.
LEMMA PlaceFacts ==
    ASSUME Types, NEW i \in 1..Len(Steps(kind)), Progress(i)
    PROVE  /\ artifact # None => applied = chain /\ navigations = 1
           /\ temp = "there" => Steps(kind)[i] \in {"write", "capture"}
           /\ recording /\ i # EvidenceAt(kind) => i + 1 <= EvidenceAt(kind)
<1>1. kind \in Plans /\ Len(Steps(kind)) \in Nat /\ i \in Nat
  BY StepsAreNamed DEF Types
<1>2. /\ NavigateAt(kind) < EvidenceAt(kind)
      /\ Steps(kind)[i] \in {"write", "capture"} <=> i = EvidenceAt(kind)
  BY <1>1, PlanFacts
<1>3. NavigateAt(kind) \in Nat /\ EvidenceAt(kind) \in Nat
  BY DEF NavigateAt, EvidenceAt
<1> QED
  BY <1>1, <1>2, <1>3 DEF Progress

\* A step that neither navigates nor writes leaves what the run has done.
LEMMA NextPlace ==
    ASSUME Types, NEW i \in 1..Len(Steps(kind)), Progress(i),
           i # NavigateAt(kind), i # EvidenceAt(kind),
           kind' = kind, chain' = chain, applied' = applied, navigations' = navigations,
           artifact' = artifact, events' = events, temp' = temp, todo' = Rest(kind, i + 1),
           recording' => recording \/ (kind = "trace" /\ i = 1),
           kind = "console" /\ listening /\ i > 5 => listening'
    PROVE  Working'
<1>1. kind \in Plans /\ Len(Steps(kind)) \in Nat /\ i \in Nat
  BY StepsAreNamed DEF Types
<1>2. NavigateAt(kind) \in Nat /\ EvidenceAt(kind) \in Nat
      /\ (kind = "trace" => EvidenceAt(kind) = 4)
  BY DEF NavigateAt, EvidenceAt
<1>3. Progress(i + 1)'
  <2>1. navigations' = IF i + 1 > NavigateAt(kind') THEN 1 ELSE 0
    BY <1>1, <1>2 DEF Progress
  <2>2. artifact' # None <=> i + 1 > EvidenceAt(kind')
    BY <1>1, <1>2 DEF Progress
  <2>3. recording' => kind' = "trace" /\ i + 1 <= EvidenceAt(kind')
    BY <1>1, <1>2 DEF Progress
  <2>4. temp' # "there"
    BY DEF Progress
  <2>5. kind' \in ConsolePlans /\ i + 1 > EvidenceAt(kind') =>
          /\ artifact' <= events'
          /\ kind' = "console" => artifact' = events' \/ (i + 1 > 5 /\ listening')
    BY <1>1, <1>2 DEF Progress
  <2>6. applied' = chain' /\ todo' = Rest(kind', i + 1)
    BY DEF Progress
  <2> QED
    BY <2>1, <2>2, <2>3, <2>4, <2>5, <2>6 DEF Progress
<1>4. i + 1 \in 1..Len(Steps(kind')) + 1
  BY <1>1
<1> QED
  BY <1>3, <1>4 DEF Working

\* Where the body is when the step x of the plan is next.
LEMMA BodyFacts ==
    ASSUME RunInv, NEW x, x # "initialize", At("body", x)
    PROVE  /\ Types /\ Holders /\ InBody /\ Working /\ kind \in Plans
           /\ \E i \in 1..Len(Steps(kind)) :
                 /\ Progress(i) /\ Steps(kind)[i] = x
                 /\ Tail(todo) = Rest(kind, i + 1)
<1>1. Types /\ Holders /\ InBody /\ Working /\ kind \in Plans
  BY DEF At, RunInv, Types
<1> QED
  BY <1>1, PlanStep

\* An exception at a step that has written nothing ends the body.
LEMMA RaiseStep ==
    ASSUME RunInv, NEW x, x # "initialize", At("body", x),
           NEW e \in Failures, Leave(e), temp' # "there",
           UNCHANGED <<browser, stacked, context, handle, runtime, applied, events, artifact, count>>,
           navigations' = navigations \/ (x = "navigate" /\ navigations' = navigations + 1)
    PROVE  RunInv'
<1>1. /\ Types /\ Holders /\ InBody /\ Working /\ kind \in Plans
      /\ \E i \in 1..Len(Steps(kind)) :
            /\ Progress(i) /\ Steps(kind)[i] = x
            /\ Tail(todo) = Rest(kind, i + 1)
  BY BodyFacts
<1>2. PICK i \in 1..Len(Steps(kind)) : Progress(i) /\ Steps(kind)[i] = x
  BY <1>1
<1>3. Types'
  BY <1>1 DEF Types, Leave
<1>4. artifact # None => applied = chain /\ navigations = 1
  BY <1>1, <1>2, PlaceFacts
<1>5. x = "navigate" => artifact = None
  <2> SUFFICES ASSUME x = "navigate" PROVE artifact = None
    OBVIOUS
  <2>1. i = NavigateAt(kind) /\ NavigateAt(kind) < EvidenceAt(kind)
    BY <1>1, <1>2, PlanFacts
  <2>2. ~(i > EvidenceAt(kind))
    BY <2>1 DEF NavigateAt, EvidenceAt
  <2> QED
    BY <1>2, <2>2 DEF Progress
<1>6. artifact' # None => applied' = chain /\ navigations' = 1
  BY <1>4, <1>5
<1> QED
  BY <1>1, <1>3, <1>6, LeaveStep

LEMMA TracingStep ==
    ASSUME RunInv, StartTracing \/ StartTracingRaises
    PROVE  RunInv'
<1>1. At("body", "start")
  BY DEF StartTracing, StartTracingRaises
<1>2. /\ Types /\ Holders /\ InBody /\ Working /\ kind \in Plans
      /\ \E i \in 1..Len(Steps(kind)) :
            /\ Progress(i) /\ Steps(kind)[i] = "start"
            /\ Tail(todo) = Rest(kind, i + 1)
  BY <1>1, BodyFacts
<1>3. PICK i \in 1..Len(Steps(kind)) :
         Progress(i) /\ Steps(kind)[i] = "start" /\ Tail(todo) = Rest(kind, i + 1)
  BY <1>2
<1>4. i # NavigateAt(kind) /\ i # EvidenceAt(kind) /\ kind = "trace" /\ i = 1
  BY <1>2, <1>3, PlanFacts
<1>5. CASE StartTracing
  <2>1. /\ todo' = Rest(kind, i + 1)
        /\ UNCHANGED <<kind, chain, phase, error, browser, stacked, context, handle, runtime,
                       applied, listening, events, navigations, temp, artifact, count>>
    BY <1>3, <1>5 DEF StartTracing, Done, native
  <2>2. Types'
    BY <1>2, <2>1 DEF Types
  <2>3. Working'
    BY <1>2, <1>3, <1>4, <2>1, NextPlace
  <2>4. phase' = "body"
    BY <1>1, <2>1 DEF At
  <2> QED
    BY <1>2, <2>1, <2>2, <2>3, <2>4, DoneStep
<1>6. CASE StartTracingRaises
  <2>1. PICK e \in Failures : Leave(e)
    BY <1>6 DEF StartTracingRaises
  <2>2. UNCHANGED <<browser, stacked, context, handle, runtime, applied,
                    events, navigations, temp, artifact, count>>
    BY <1>6 DEF StartTracingRaises, native
  <2>3. temp' # "there"
    BY <1>2, <1>3, <2>2, PlaceFacts
  <2> QED
    BY <1>1, <2>1, <2>2, <2>3, RaiseStep
<1> QED
  BY <1>5, <1>6

\* The awaits that change nothing of the run's own: the page, its title, the storage.
LEMMA PlainStep ==
    ASSUME RunInv, NEW x \in {"page", "title", "persist"}, At("body", x), native' = native, plan' = plan,
           Done \/ \E e \in Failures : Leave(e)
    PROVE  RunInv'
<1>1. /\ Types /\ Holders /\ InBody /\ Working /\ kind \in Plans
      /\ \E i \in 1..Len(Steps(kind)) :
            /\ Progress(i) /\ Steps(kind)[i] = x
            /\ Tail(todo) = Rest(kind, i + 1)
  BY BodyFacts
<1>2. PICK i \in 1..Len(Steps(kind)) :
         Progress(i) /\ Steps(kind)[i] = x /\ Tail(todo) = Rest(kind, i + 1)
  BY <1>1
<1>3. i # NavigateAt(kind) /\ i # EvidenceAt(kind)
  BY <1>1, <1>2, PlanFacts
<1>4. UNCHANGED <<browser, stacked, context, handle, runtime, applied, recording, listening,
                  events, navigations, temp, artifact, count>>
  BY DEF native, plan
<1>5. temp' # "there"
  BY <1>1, <1>2, <1>4, PlaceFacts
<1>6. CASE Done
  <2>1. todo' = Rest(kind, i + 1) /\ UNCHANGED <<kind, chain, phase, error>>
    BY <1>2, <1>6 DEF Done
  <2>2. Types'
    BY <1>1, <1>4, <2>1 DEF Types
  <2>3. Working'
    BY <1>1, <1>2, <1>3, <1>4, <2>1, NextPlace
  <2>4. phase' = "body"
    BY <2>1 DEF At
  <2> QED
    BY <1>1, <1>4, <2>1, <2>2, <2>3, <2>4, DoneStep
<1>7. CASE \E e \in Failures : Leave(e)
  <2>1. PICK e \in Failures : Leave(e)
    BY <1>7
  <2> QED
    BY <1>4, <1>5, <2>1, RaiseStep
<1> QED
  BY <1>6, <1>7

LEMMA NavigateStep ==
    ASSUME RunInv, Navigate
    PROVE  RunInv'
<1>1. At("body", "navigate")
  BY DEF Navigate
<1>2. /\ Types /\ Holders /\ InBody /\ Working /\ kind \in Plans
      /\ \E i \in 1..Len(Steps(kind)) :
            /\ Progress(i) /\ Steps(kind)[i] = "navigate"
            /\ Tail(todo) = Rest(kind, i + 1)
  BY <1>1, BodyFacts
<1>3. PICK i \in 1..Len(Steps(kind)) :
         Progress(i) /\ Steps(kind)[i] = "navigate" /\ Tail(todo) = Rest(kind, i + 1)
  BY <1>2
<1>4. i = NavigateAt(kind) /\ NavigateAt(kind) < EvidenceAt(kind)
  BY <1>2, <1>3, PlanFacts
<1>5. /\ navigations' = navigations + 1
      /\ UNCHANGED <<browser, stacked, context, handle, runtime, applied, recording, listening,
                     events, temp, artifact, count>>
  BY DEF Navigate, native
<1>6. temp' # "there"
  BY <1>2, <1>3, <1>5, PlaceFacts
<1>7. CASE Done
  <2>1. todo' = Rest(kind, i + 1) /\ UNCHANGED <<kind, chain, phase, error>>
    BY <1>3, <1>7 DEF Done
  <2>2. Types'
    BY <1>2, <1>5, <2>1 DEF Types
  <2>3. NavigateAt(kind) \in Nat /\ EvidenceAt(kind) \in Nat /\ i \in Nat
    BY <1>2, <1>4 DEF NavigateAt, EvidenceAt
  <2>4. navigations' = 1 /\ artifact' = None
    BY <1>3, <1>4, <1>5, <2>3 DEF Progress
  <2>5. applied' = chain' /\ (recording' => kind' = "trace")
    BY <1>3, <1>5, <2>1 DEF Progress
  <2>6. Progress(i + 1)'
    BY <1>4, <1>5, <1>6, <2>1, <2>3, <2>4, <2>5 DEF Progress
  <2>7. i + 1 \in 1..Len(Steps(kind')) + 1
    BY <1>2, <2>1, <2>3, StepsAreNamed
  <2>8. Working' /\ phase' = "body"
    BY <1>1, <2>1, <2>6, <2>7 DEF Working, At
  <2> QED
    BY <1>2, <1>5, <2>1, <2>2, <2>8, DoneStep
<1>8. CASE \E e \in Failures : Leave(e)
  <2>1. PICK e \in Failures : Leave(e)
    BY <1>8
  <2> QED
    BY <1>1, <1>5, <1>6, <2>1, RaiseStep
<1> QED
  BY <1>7, <1>8 DEF Navigate

LEMMA AttachStep ==
    ASSUME RunInv, Attach
    PROVE  RunInv'
<1>1. At("body", "attach")
  BY DEF Attach
<1>2. /\ Types /\ Holders /\ InBody /\ Working /\ kind \in Plans
      /\ \E i \in 1..Len(Steps(kind)) :
            /\ Progress(i) /\ Steps(kind)[i] = "attach"
            /\ Tail(todo) = Rest(kind, i + 1)
  BY <1>1, BodyFacts
<1>3. PICK i \in 1..Len(Steps(kind)) :
         Progress(i) /\ Steps(kind)[i] = "attach" /\ Tail(todo) = Rest(kind, i + 1)
  BY <1>2
<1>4. i # NavigateAt(kind) /\ i # EvidenceAt(kind) /\ i = 2
  BY <1>2, <1>3, PlanFacts
<1>5. UNCHANGED <<browser, stacked, context, handle, runtime, applied, recording,
                  events, navigations, temp, artifact, count>>
  BY DEF Attach, native
<1>6. temp' # "there"
  BY <1>2, <1>3, <1>5, PlaceFacts
<1>7. CASE listening' = TRUE /\ Done
  <2>1. todo' = Rest(kind, i + 1) /\ UNCHANGED <<kind, chain, phase, error>>
    BY <1>3, <1>7 DEF Done
  <2>2. Types'
    BY <1>2, <1>5, <2>1 DEF Types
  <2>3. Working'
    BY <1>2, <1>3, <1>4, <1>5, <1>7, <2>1, NextPlace
  <2>4. phase' = "body"
    BY <1>1, <2>1 DEF At
  <2> QED
    BY <1>2, <1>5, <2>1, <2>2, <2>3, <2>4, DoneStep
<1>8. CASE listening' = FALSE /\ Leave("raised")
  BY <1>1, <1>5, <1>6, <1>8, RaiseStep DEF Failures
<1> QED
  BY <1>7, <1>8 DEF Attach

LEMMA WriteStep ==
    ASSUME RunInv, WriteConsole
    PROVE  RunInv'
<1>1. At("body", "write")
  BY DEF WriteConsole
<1>2. /\ Types /\ Holders /\ InBody /\ Working /\ kind \in Plans
      /\ \E i \in 1..Len(Steps(kind)) :
            /\ Progress(i) /\ Steps(kind)[i] = "write"
            /\ Tail(todo) = Rest(kind, i + 1)
  BY <1>1, BodyFacts
<1>3. PICK i \in 1..Len(Steps(kind)) :
         Progress(i) /\ Steps(kind)[i] = "write" /\ Tail(todo) = Rest(kind, i + 1)
  BY <1>2
<1>4. i = EvidenceAt(kind) /\ kind \in ConsolePlans /\ NavigateAt(kind) < EvidenceAt(kind)
  BY <1>2, <1>3, PlanFacts
<1>5. UNCHANGED <<browser, stacked, context, handle, runtime, applied, recording, listening,
                  events, navigations, temp, count>>
  BY DEF WriteConsole, native
<1>6. temp' # "there" /\ ~recording'
  BY <1>3, <1>4, <1>5 DEF Progress, ConsolePlans
<1>7. NavigateAt(kind) \in Nat /\ EvidenceAt(kind) \in Nat /\ i \in Nat
  BY <1>2, <1>4 DEF NavigateAt, EvidenceAt
<1>8. artifact = None /\ navigations = 1 /\ applied = chain
  BY <1>3, <1>4, <1>7 DEF Progress
<1>9. CASE artifact' = events /\ Done
  <2>1. todo' = Rest(kind, i + 1) /\ UNCHANGED <<kind, chain, phase, error>>
    BY <1>3, <1>9 DEF Done
  <2>2. Types' /\ artifact' \in Nat
    BY <1>2, <1>5, <1>9, <2>1 DEF Types
  <2>3. artifact' # None /\ artifact' <= events' /\ artifact' = events'
    BY <1>5, <1>9, <2>2, DiagnosticAssumption
  <2>4. Progress(i + 1)'
    BY <1>4, <1>5, <1>6, <1>7, <1>8, <2>1, <2>3 DEF Progress
  <2>5. i + 1 \in 1..Len(Steps(kind')) + 1
    BY <1>2, <1>7, <2>1, StepsAreNamed
  <2>6. Working' /\ phase' = "body"
    BY <1>1, <2>1, <2>4, <2>5 DEF Working, At
  <2> QED
    BY <1>2, <1>5, <2>1, <2>2, <2>6, DoneStep
<1>10. CASE artifact' = None /\ Leave("raised")
  BY <1>1, <1>5, <1>6, <1>8, <1>10, RaiseStep DEF Failures
<1> QED
  BY <1>9, <1>10 DEF WriteConsole

LEMMA DetachStep ==
    ASSUME RunInv, Detach
    PROVE  RunInv'
<1>1. At("body", "detach")
  BY DEF Detach
<1>2. /\ Types /\ Holders /\ InBody /\ Working /\ kind \in Plans
      /\ \E i \in 1..Len(Steps(kind)) :
            /\ Progress(i) /\ Steps(kind)[i] = "detach"
            /\ Tail(todo) = Rest(kind, i + 1)
  BY <1>1, BodyFacts
<1>3. PICK i \in 1..Len(Steps(kind)) :
         Progress(i) /\ Steps(kind)[i] = "detach" /\ Tail(todo) = Rest(kind, i + 1)
  BY <1>2
<1>4. i # NavigateAt(kind) /\ i # EvidenceAt(kind) /\ (kind = "console" => i = 5)
  BY <1>2, <1>3, PlanFacts
<1>5. /\ todo' = Rest(kind, i + 1)
      /\ UNCHANGED <<kind, chain, phase, error, browser, stacked, context, handle, runtime,
                     applied, recording, events, navigations, temp, artifact, count>>
  BY <1>3 DEF Detach, Done, native
<1>6. listening' => listening
  BY DEF Detach
<1>7. Types'
  BY <1>2, <1>5 DEF Types
<1>8. Working'
  BY <1>2, <1>3, <1>4, <1>5, NextPlace
<1>9. Holders' /\ InBody' /\ phase' = "body"
  BY <1>1, <1>2, <1>5, <1>6 DEF Holders, InBody, At
<1> QED
  BY <1>7, <1>8, <1>9 DEF RunInv

LEMMA CaptureStep ==
    ASSUME RunInv, CaptureBegins \/ CaptureReturns \/ CaptureRaises
    PROVE  RunInv'
<1>1. At("body", "capture")
  BY DEF CaptureBegins, CaptureReturns, CaptureRaises
<1>2. /\ Types /\ Holders /\ InBody /\ Working /\ kind \in Plans
      /\ \E i \in 1..Len(Steps(kind)) :
            /\ Progress(i) /\ Steps(kind)[i] = "capture"
            /\ Tail(todo) = Rest(kind, i + 1)
  BY <1>1, BodyFacts
<1>3. PICK i \in 1..Len(Steps(kind)) :
         Progress(i) /\ Steps(kind)[i] = "capture" /\ Tail(todo) = Rest(kind, i + 1)
  BY <1>2
<1>4. /\ i = EvidenceAt(kind) /\ NavigateAt(kind) < EvidenceAt(kind)
      /\ kind \in {"screenshot", "trace"} /\ kind \notin ConsolePlans
  BY <1>2, <1>3, PlanFacts DEF ConsolePlans
<1>5. NavigateAt(kind) \in Nat /\ EvidenceAt(kind) \in Nat /\ i \in Nat
  BY <1>2, <1>4 DEF NavigateAt, EvidenceAt
<1>6. artifact = None /\ navigations = 1 /\ applied = chain
  BY <1>3, <1>4, <1>5 DEF Progress
<1>7. CASE CaptureBegins /\ temp' = "there"
  <2>1. UNCHANGED <<kind, chain, phase, todo, error, browser, stacked, context, handle, runtime,
                    applied, recording, listening, events, navigations, artifact, count>>
    BY <1>7 DEF CaptureBegins, CleanedUp, native, Leave
  <2>2. Types'
    BY <1>2, <2>1 DEF Types
  <2>3. Progress(i)'
    BY <1>3, <1>4, <2>1 DEF Progress
  <2>4. i \in 1..Len(Steps(kind')) + 1
    BY <1>2, <1>5, <2>1, StepsAreNamed
  <2>5. Working' /\ phase' = "body"
    BY <1>1, <2>1, <2>3, <2>4 DEF Working, At
  <2> QED
    BY <1>2, <2>1, <2>2, <2>5, DoneStep
<1>8. CASE CaptureBegins /\ temp' # "there" /\ Leave("raised")
  <2>1. UNCHANGED <<browser, stacked, context, handle, runtime, applied, events, navigations,
                    artifact, count>>
    BY <1>8 DEF CaptureBegins, native
  <2> QED
    BY <1>1, <1>8, <2>1, RaiseStep DEF Failures
<1>9. CASE CaptureReturns
  <2>1. /\ todo' = Rest(kind, i + 1) /\ ~recording' /\ artifact' = 1 /\ temp' # "there"
        /\ UNCHANGED <<kind, chain, phase, error, browser, stacked, context, handle, runtime,
                       applied, listening, events, navigations, count>>
    BY <1>3, <1>9 DEF CaptureReturns, CleanedUp, Done, native
  <2>2. Types'
    BY <1>2, <2>1 DEF Types
  <2>3. artifact' # None
    BY <2>1, DiagnosticAssumption
  <2>4. Progress(i + 1)'
    BY <1>4, <1>5, <1>6, <2>1, <2>3 DEF Progress
  <2>5. i + 1 \in 1..Len(Steps(kind')) + 1
    BY <1>2, <1>5, <2>1, StepsAreNamed
  <2>6. Working' /\ phase' = "body"
    BY <1>1, <2>1, <2>4, <2>5 DEF Working, At
  <2> QED
    BY <1>2, <2>1, <2>2, <2>6, DoneStep
<1>10. CASE CaptureRaises
  <2>1. PICK e \in Failures : Leave(e)
    BY <1>10 DEF CaptureRaises
  <2>2. /\ temp' # "there"
        /\ UNCHANGED <<browser, stacked, context, handle, runtime, applied, events, navigations,
                       artifact, count>>
    BY <1>10 DEF CaptureRaises, CleanedUp, native
  <2> QED
    BY <1>1, <2>1, <2>2, RaiseStep
<1> QED
  BY <1>7, <1>8, <1>9, <1>10 DEF CaptureBegins, CleanedUp

\* The count is read when the listener has been asked to go.
LEMMA PlanReturnsStep ==
    ASSUME RunInv, PlanReturns
    PROVE  RunInv'
<1>1. Types /\ Holders /\ InBody /\ Working /\ kind \in Plans /\ todo = <<>>
  BY DEF PlanReturns, RunInv, Types
<1>2. PICK i \in Nat : Progress(i) /\ i = Len(Steps(kind)) + 1
  BY <1>1, PlanOver, StepsAreNamed
<1>3. /\ NavigateAt(kind) < EvidenceAt(kind) /\ EvidenceAt(kind) <= i
      /\ kind # "open" => EvidenceAt(kind) < i
      /\ NavigateAt(kind) \in Nat /\ EvidenceAt(kind) \in Nat
  <2> DEFINE n == Len(Steps(kind))
  <2>1. n \in 3..7
    BY <1>1, StepsAreNamed
  <2>2. NavigateAt(kind) \in Nat /\ EvidenceAt(kind) \in Nat
    BY DEF NavigateAt, EvidenceAt
  <2>3. 1 \in 1..n
    <3> HIDE DEF n
    <3> QED
      BY <2>1
  <2>4. /\ NavigateAt(kind) < EvidenceAt(kind) /\ EvidenceAt(kind) <= Len(Steps(kind)) + 1
        /\ kind # "open" => EvidenceAt(kind) <= Len(Steps(kind))
    BY <1>1, <2>3, PlanFacts
  <2> QED
    BY <1>2, <2>1, <2>2, <2>4
<1>4. /\ count' = events /\ phase' = "exit" /\ todo' = <<"final", "context", "runtime">>
      /\ UNCHANGED <<kind, chain, error, browser, stacked, context, handle, runtime, applied,
                     recording, listening, events, navigations, temp, artifact>>
  BY DEF PlanReturns, native
<1>5. Types' /\ Holders'
  BY <1>1, <1>4 DEF Types, Holders
<1>6. ~recording
  <2>1. recording => kind = "trace" /\ i <= EvidenceAt(kind)
    BY <1>2 DEF Progress
  <2> QED
    BY <1>2, <1>3, <2>1
<1>7. temp # "there"
  <2>1. temp = "there" => i = EvidenceAt(kind) /\ kind # "open"
    BY <1>2 DEF Progress
  <2> QED
    BY <1>2, <1>3, <2>1
<1>8. Evidence'
  <2>1. artifact' # None => applied' = chain' /\ navigations' = 1
    BY <1>2, <1>3, <1>4 DEF Progress
  <2>2. kind' # "open" => artifact' # None
    BY <1>2, <1>3, <1>4 DEF Progress
  <2>3. kind' \in ConsolePlans =>
           /\ artifact' <= count'
           /\ kind' = "console" /\ handle' = "open" => listening' \/ artifact' = count'
    BY <1>2, <1>3, <1>4 DEF Progress, ConsolePlans
  <2> QED
    BY <1>4, <1>6, <2>1, <2>2, <2>3 DEF Evidence
<1>9. Leaving'
  BY <1>1, <1>4, <1>7, <1>8, CloseSteps DEF Leaving, InBody
<1> QED
  BY <1>4, <1>5, <1>9 DEF RunInv

\* A message changes what the artifact is of only after it was written.
LEMMA ConsoleStep ==
    ASSUME RunInv, OnConsole
    PROVE  RunInv'
<1>1. /\ listening /\ todo # <<>> /\ Head(todo) \in Awaited /\ events' = events + 1
      /\ UNCHANGED <<kind, chain, phase, todo, browser, stacked, context, handle, runtime, applied,
                     recording, listening, navigations, temp, artifact, count, error>>
  BY DEF OnConsole, native
<1>2. Types /\ Holders /\ kind \in Plans
  BY DEF RunInv, Types
<1>3. Types' /\ Holders'
  BY <1>1, <1>2 DEF Types, Holders
<1>4. phase # "enter"
  BY <1>1 DEF RunInv, Entering, Nothing
<1>5. CASE phase = "body"
  <2>1. InBody /\ Working
    BY <1>5 DEF RunInv
  <2>2. At("body", Head(todo)) /\ Head(todo) # "initialize"
    BY <1>1, <1>5 DEF At, Awaited
  <2>3. \E i \in 1..Len(Steps(kind)) :
           /\ Progress(i) /\ Steps(kind)[i] = Head(todo)
           /\ Tail(todo) = Rest(kind, i + 1)
    BY <2>2, BodyFacts
  <2>4. PICK i \in 1..Len(Steps(kind)) : Progress(i) /\ Steps(kind)[i] = Head(todo)
    BY <2>3
  <2>5. EvidenceAt(kind) \in Nat /\ i \in Nat /\ Len(Steps(kind)) \in Nat
    BY <1>2, StepsAreNamed DEF EvidenceAt
  <2>6. kind = "console" /\ i > EvidenceAt(kind) => i > 5
    <3> SUFFICES ASSUME kind = "console", i > EvidenceAt(kind), ~(i > 5) PROVE FALSE
      OBVIOUS
    <3>1. i = 5
      BY <2>5 DEF EvidenceAt
    <3>2. Steps(kind)[i] = "detach"
      BY <1>2, <3>1, PlanFacts
    <3> QED
      BY <1>1, <2>4, <3>2 DEF Awaited
  <2>7. Progress(i)'
    <3>1. kind \in ConsolePlans /\ i > EvidenceAt(kind) => artifact \in Nat /\ artifact <= events'
      <4> SUFFICES ASSUME kind \in ConsolePlans, i > EvidenceAt(kind)
                   PROVE  artifact \in Nat /\ artifact <= events'
        OBVIOUS
      <4>1. artifact # None /\ artifact <= events
        BY <2>4 DEF Progress
      <4>2. artifact \in Nat /\ events \in Nat
        BY <1>2, <4>1 DEF Types
      <4> QED
        BY <1>1, <4>1, <4>2
    <3> QED
      BY <1>1, <2>4, <2>6, <3>1 DEF Progress
  <2>8. i \in 1..Len(Steps(kind')) + 1
    BY <1>1, <2>5
  <2>9. Working' /\ InBody' /\ phase' = "body"
    BY <1>1, <1>5, <2>1, <2>7, <2>8 DEF Working, InBody
  <2> QED
    BY <1>3, <2>9 DEF RunInv
<1>6. CASE phase = "exit"
  <2>1. Leaving /\ phase' = "exit"
    BY <1>1, <1>6 DEF RunInv
  <2>2. Leaving'
    BY <1>1, <2>1 DEF Leaving, Evidence
  <2> QED
    BY <1>3, <2>1, <2>2 DEF RunInv
<1>7. phase # "ended"
  BY <1>1 DEF RunInv
<1> QED
  BY <1>4, <1>5, <1>6, <1>7 DEF RunInv

-----------------------------------------------------------------------------
(***************************************************************************)
(* The close.                                                              *)
(***************************************************************************)
LEMMA FinalStep ==
    ASSUME RunInv, CaptureFinal
    PROVE  RunInv'
<1>1. phase = "exit" /\ Types /\ Holders /\ Leaving /\ Head(todo) = "final"
  BY DEF CaptureFinal, At, RunInv
<1>2. todo = <<"final", "context", "runtime">>
  <2>1. todo # <<>>
    BY DEF CaptureFinal, At
  <2> QED
    BY <1>1, <2>1, CloseSteps DEF Leaving
<1>3. PICK e \in Failures \cup {None} : Onward(e)
  BY DEF CaptureFinal
<1>4. /\ todo' = <<"context", "runtime">> /\ error' = IF error = None THEN e ELSE error
      /\ UNCHANGED <<kind, chain, phase, browser, stacked, context, handle, runtime, applied,
                     recording, listening, events, navigations, temp, artifact, count>>
  BY <1>2, <1>3, CloseSteps DEF CaptureFinal, Onward, native, plan
<1>5. Types' /\ Holders'
  BY <1>1, <1>4 DEF Types, Holders
<1>6. error # None => error' # None
  BY <1>4
<1>7. Evidence'
  BY <1>1, <1>4 DEF Leaving, Evidence
<1>8. Leaving'
  BY <1>1, <1>2, <1>4, <1>6, <1>7, CloseSteps DEF Leaving
<1> QED
  BY <1>1, <1>4, <1>5, <1>8 DEF RunInv

LEMMA CloseContextStep ==
    ASSUME RunInv, CloseContext
    PROVE  RunInv'
<1>1. phase = "exit" /\ Types /\ Holders /\ Leaving /\ Head(todo) = "context" /\ todo # <<>>
  BY DEF CloseContext, At, RunInv
<1>2. todo = <<"context", "runtime">>
  BY <1>1, CloseSteps DEF Leaving
<1>3. PICK e \in Failures \cup {None} : Onward(e)
  BY DEF CloseContext
<1>4. /\ todo' = <<"runtime">> /\ error' = IF error = None THEN e ELSE error
      /\ handle' # "open"
      /\ UNCHANGED <<kind, chain, phase, browser, stacked, runtime, applied,
                     events, navigations, temp, artifact, count>>
  BY <1>2, <1>3, CloseSteps DEF CloseContext, Onward
<1>5. \/ context' = (IF context = "open" THEN "closed" ELSE context) /\ ~recording' /\ ~listening'
      \/ UNCHANGED <<context, recording, listening>>
  BY DEF CloseContext, ContextGoes
<1>6. Types'
  BY <1>1, <1>4 DEF Types
<1>7. Holders'
  BY <1>1, <1>4, <1>5 DEF Holders
<1>8. error # None => error' # None
  BY <1>4
<1>9. Evidence'
  BY <1>1, <1>4, <1>5 DEF Leaving, Evidence
<1>10. context = "none" => context' = "none"
  BY <1>5
<1>11. Leaving'
  BY <1>1, <1>2, <1>4, <1>8, <1>9, <1>10, CloseSteps DEF Leaving
<1> QED
  BY <1>1, <1>4, <1>6, <1>7, <1>11 DEF RunInv

LEMMA CloseRuntimeStep ==
    ASSUME RunInv, CloseRuntime
    PROVE  RunInv'
<1>1. phase = "exit" /\ Types /\ Holders /\ Leaving /\ Head(todo) = "runtime" /\ todo # <<>>
  BY DEF CloseRuntime, At, RunInv
<1>2. todo = <<"runtime">> /\ handle # "open"
  BY <1>1, CloseSteps DEF Leaving
<1>3. PICK e \in Failures \cup {None} : Onward(e)
  BY DEF CloseRuntime
<1>4. /\ todo' = <<>> /\ error' = IF error = None THEN e ELSE error
      /\ runtime' = IF runtime = "none" THEN "none" ELSE "closed"
      /\ UNCHANGED <<kind, chain, phase, handle, applied, events, navigations, temp, artifact, count>>
  BY <1>2, <1>3, CloseSteps DEF CloseRuntime, Onward
<1>5. \/ /\ browser' = "down" /\ ~recording' /\ ~listening'
         /\ context' = IF context = "open" THEN "closed" ELSE context
      \/ UNCHANGED <<browser, context, recording, listening>>
  BY DEF CloseRuntime, BrowserGoes, ContextGoes
<1>6. Types'
  BY <1>1, <1>4 DEF Types
<1>7. Holders'
  BY <1>1, <1>5 DEF Holders
<1>8. error # None => error' # None
  BY <1>4
<1>9. Evidence'
  BY <1>1, <1>2, <1>4, <1>5 DEF Leaving, Evidence
<1>10. runtime' = "none" => context' = "none" /\ applied' = 0 /\ error' # None
  BY <1>1, <1>4, <1>5, <1>8 DEF Leaving
<1>11. runtime' = "closed" /\ browser' = "up" => error' # None
  <2> SUFFICES ASSUME runtime' = "closed", browser' = "up" PROVE error' # None
    OBVIOUS
  <2>1. runtime \in {"open", "closed"} /\ browser = "up"
    BY <1>1, <1>4, <1>5 DEF Leaving
  <2>2. CASE runtime = "closed"
    BY <1>1, <1>8, <2>1, <2>2 DEF Leaving
  <2>3. CASE runtime = "open"
    <3>1. stacked
      BY <1>1, <2>3 DEF Leaving
    <3>2. PICK f \in Failures : Onward(f)
      BY <2>3, <3>1 DEF CloseRuntime, BrowserGoes
    <3>3. error' = IF error = None THEN f ELSE error
      BY <3>2 DEF Onward
    <3> QED
      BY <3>3, DiagnosticAssumption DEF Failures
  <2> QED
    BY <2>1, <2>2, <2>3
<1>12. Leaving'
  <2>1. temp' # "there" /\ handle' # "open" /\ runtime' \in {"none", "closed"}
    BY <1>1, <1>2, <1>4 DEF Leaving
  <2> QED
    BY <1>4, <1>9, <1>10, <1>11, <2>1, CloseSteps DEF Leaving
<1> QED
  BY <1>1, <1>4, <1>6, <1>7, <1>12 DEF RunInv

LEMMA EndStep ==
    ASSUME RunInv, End
    PROVE  RunInv'
<1>1. /\ phase = "exit" /\ todo = <<>> /\ phase' = "ended"
      /\ UNCHANGED <<kind, chain, todo, browser, stacked, context, handle, runtime, applied,
                     recording, listening, events, navigations, temp, artifact, count, error>>
  BY DEF End, native, plan
<1>2. Types /\ Holders /\ Leaving
  BY <1>1 DEF RunInv
<1>3. Types' /\ Holders' /\ Leaving'
  BY <1>1, <1>2 DEF Types, Holders, Leaving, Evidence
<1> QED
  BY <1>1, <1>3 DEF RunInv

-----------------------------------------------------------------------------
LEMMA InvStep == RunInv /\ [Next]_vars => RunInv'
<1> SUFFICES ASSUME RunInv, [Next]_vars PROVE RunInv'
  OBVIOUS
<1>1. CASE UNCHANGED vars
  BY <1>1 DEF vars, native, plan, RunInv, Types, Holders, Entering, Nothing, InBody, Working,
              Initializing, Progress, Leaving, Evidence
<1>2. CASE Launch \/ LaunchRaises
  BY <1>2, LaunchStep
<1>3. CASE NewContext \/ NewContextRaises
  BY <1>3, ContextStep
<1>4. CASE Initialize \/ InitializerRaises
  BY <1>4, InitializeStep
<1>5. CASE StartTracing \/ StartTracingRaises
  BY <1>5, TracingStep
<1>6. CASE NewPage
  BY <1>6, PlainStep DEF NewPage
<1>7. CASE AskPage
  BY <1>7, PlainStep DEF AskPage
<1>8. CASE PageRaises
  BY <1>8, PlainStep DEF PageRaises
<1>9. CASE PersistConsole
  BY <1>9, PlainStep DEF PersistConsole
<1>10. CASE Navigate
  BY <1>10, NavigateStep
<1>11. CASE Attach
  BY <1>11, AttachStep
<1>12. CASE OnConsole
  BY <1>12, ConsoleStep
<1>13. CASE WriteConsole
  BY <1>13, WriteStep
<1>14. CASE Detach
  BY <1>14, DetachStep
<1>15. CASE CaptureBegins \/ CaptureReturns \/ CaptureRaises
  BY <1>15, CaptureStep
<1>16. CASE PlanReturns
  BY <1>16, PlanReturnsStep
<1>17. CASE CaptureFinal
  BY <1>17, FinalStep
<1>18. CASE CloseContext
  BY <1>18, CloseContextStep
<1>19. CASE CloseRuntime
  BY <1>19, CloseRuntimeStep
<1>20. CASE End
  BY <1>20, EndStep
<1> QED
  BY <1>1, <1>2, <1>3, <1>4, <1>5, <1>6, <1>7, <1>8, <1>9, <1>10, <1>11, <1>12, <1>13, <1>14,
     <1>15, <1>16, <1>17, <1>18, <1>19, <1>20 DEF Next

(***************************************************************************)
(* Every run, of any plan and at any point of it, is in one of the phases  *)
(* the invariant describes: what is left to do determines what has been    *)
(* done (ManagedSessionContext.__aenter__, the plans, __aexit__).          *)
(***************************************************************************)
THEOREM RunCorrect == Spec => []RunInv
BY InvInit, InvStep, PTL DEF Spec

(***************************************************************************)
(* A run that has ended left a temporary file only where its removal       *)
(* failed, and a browser, with what is open in it, only where its close    *)
(* raised or where its manager raised while starting it; the run has       *)
(* failed in both cases (HardenedTempFile.cleanup, CamoufoxRuntime.close,  *)
(* CamoufoxEngine.launch, ManagedSessionContext.__aexit__).                *)
(***************************************************************************)
THEOREM NothingIsLeft == Spec => []NothingOutlivesTheRun
<1>1. RunInv => NothingOutlivesTheRun
  <2> SUFFICES ASSUME RunInv, phase = "ended" PROVE NothingOutlivesTheRun
    BY DEF NothingOutlivesTheRun
  <2>1. Holders /\ Leaving /\ todo = <<>>
    BY DEF RunInv
  <2>2. temp # "there" /\ (recording \/ listening \/ context = "open" => browser = "up")
    BY <2>1 DEF Holders, Leaving
  <2>3. runtime \in {"none", "closed"}
    BY <2>1 DEF Leaving
  <2>4. browser = "up" => error # None /\ runtime \in {"none", "closed"}
    BY <2>1, <2>3 DEF Leaving
  <2>5. browser = "up" /\ runtime = "none" => context = "none" /\ applied = 0
    BY <2>1 DEF Leaving
  <2> QED
    BY <2>2, <2>4, <2>5 DEF NothingOutlivesTheRun
<1> QED
  BY <1>1, RunCorrect, PTL

(***************************************************************************)
(* The event count a console diagnostic reports is the number of events in *)
(* its artifact, whatever the page sends while the run awaits, unless the  *)
(* listener stayed or an await came between (_console_plan,                *)
(* ConsoleCaptureHandle.write_artifact and detach).                        *)
(***************************************************************************)
THEOREM CountsAreTrue == Spec => []CountMatchesArtifact
<1>1. RunInv => CountMatchesArtifact
  <2> SUFFICES ASSUME RunInv, count # None, kind \in ConsolePlans
               PROVE  /\ artifact # None /\ artifact <= count
                      /\ kind = "console" /\ ~listening /\ handle = "open" => artifact = count
    BY DEF CountMatchesArtifact, ConsolePlans
  <2>1. phase \in {"exit", "ended"}
    BY DEF RunInv, Entering, Nothing, InBody
  <2>2. Evidence
    BY <2>1 DEF RunInv, Leaving
  <2>3. kind # "open"
    BY DEF ConsolePlans
  <2> QED
    BY <2>2, <2>3 DEF Evidence
<1> QED
  BY <1>1, RunCorrect, PTL

(***************************************************************************)
(* An artifact is of the one navigation, in the context as all of its      *)
(* initializers made it, and a diagnostic that succeeds has its artifact   *)
(* and has stopped its trace (ContextInitializerChain.initialize, the      *)
(* plans of cli/diagnostics.py).                                           *)
(***************************************************************************)
THEOREM EvidenceIsSound == Spec => []EvidenceIsOfTheNavigation
<1>1. RunInv => EvidenceIsOfTheNavigation
  <2> SUFFICES ASSUME RunInv
               PROVE  /\ artifact # None => applied = chain /\ navigations = 1
                      /\ count # None => ~recording /\ (kind # "open" => artifact # None)
    BY DEF EvidenceIsOfTheNavigation
  <2>1. CASE phase \in {"exit", "ended"}
    BY <2>1 DEF RunInv, Leaving, Evidence
  <2>2. CASE phase = "enter"
    BY <2>2 DEF RunInv, Entering, Nothing
  <2>3. CASE phase = "body"
    <3>1. Types /\ InBody /\ Working
      BY <2>3 DEF RunInv
    <3>2. CASE Initializing
      BY <3>1, <3>2 DEF Initializing, InBody
    <3>3. CASE \E i \in 1..Len(Steps(kind)) + 1 : Progress(i)
      <4>1. PICK i \in 1..Len(Steps(kind)) + 1 : Progress(i)
        BY <3>3
      <4>2. /\ NavigateAt(kind) < EvidenceAt(kind) /\ i \in Nat
            /\ NavigateAt(kind) \in Nat /\ EvidenceAt(kind) \in Nat
        BY <3>1, StepsAreNamed DEF Types, Plans, NavigateAt, EvidenceAt
      <4>3. artifact # None => applied = chain /\ navigations = 1
        BY <4>1, <4>2 DEF Progress
      <4> QED
        BY <3>1, <4>3 DEF InBody
    <3> QED
      BY <3>1, <3>2, <3>3 DEF Working
  <2> QED
    BY <2>1, <2>2, <2>3 DEF RunInv
<1> QED
  BY <1>1, RunCorrect, PTL

=============================================================================
