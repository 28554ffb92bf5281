------------------------- MODULE OperatorCommandProofs -------------------------
(***************************************************************************)
(* Proofs about OperatorCommand, for every set of calls, configurations    *)
(* and environment profiles: the configuration of a run, and what the      *)
(* report of a command says of what was done.                              *)
(***************************************************************************)
EXTENDS OperatorCommand, TLAPS

(***************************************************************************)
(* The phases in which nothing has been done yet, in which the context is  *)
(* entered, and in which it is closed: the run is recorded in the last.    *)
(***************************************************************************)
Before == {"parse", "load", "request", "resolve", "check", "engine", "enter"}
Inside == {"initialize", "plan", "exit"}
After == {"extra", "persist", "result"}
Over == {"report", "done"}

\* A configuration the run was given under the rules of precedence.
IsChosen(c) ==
    /\ c \in Settings
    /\ c.mode = Winner(<<FlagMode(request.headed), OverrideOf("mode"), asked.mode>>)
    /\ c.locale = Winner(<<OverrideOf("locale"), ProfileLocale, asked.locale>>)
    /\ c.timeout = Winner(<<OverrideOf("timeout"), asked.timeout>>)
    /\ "locale" \in applied <=> ProfileLocale # Null /\ OverrideOf("locale") = Null

ConfigInv ==
    /\ request \in Requests
    /\ asked \in Configurations
    /\ stored = Rebuilt(Projected(asked))
    /\ phase \in {"parse", "load", "request", "resolve"} => applied = {}
    /\ phase \in {"check", "engine", "enter"} \cup Inside \cup After => IsChosen(config)
    /\ phase \in {"engine", "enter"} => Persistable(config)
    /\ launched # Null => /\ launched = config /\ IsChosen(config)
                          /\ config.private = {} /\ config.fingerprint = Null

(***************************************************************************)
(* What is true of the run when an exception is on its way to the report.  *)
(***************************************************************************)
Refusals == {"CliUsageError", "CliSecurityError", "UsageError", "SecurityRefusal"}
LoadErrors == {"PersistenceError", "SQLAlchemyError"}
CloseErrors == {"SessionStateError", "ArtifactError", "PlaywrightError"}
BrowserErrors == {"BrowserRuntimeError", "CliBrowserError"}

ErrorInv ==
    /\ error \in {Null, "PersistenceFailure", "ValueError", "CancelledError"}
                    \cup Refusals \cup LoadErrors \cup CloseErrors \cup BrowserErrors
    /\ error \in Refusals /\ request.caller = "cli" => Untouched
    /\ error \in LoadErrors => Untouched
    /\ error \in CloseErrors => launched # Null /\ navigated = request.navigations
    /\ error = "PersistenceFailure" => launched # Null
    /\ error = "ValueError" => IF recorded THEN phase \in Over ELSE Untouched
    /\ warned <=> error = "PersistenceFailure"
    /\ recorded => /\ phase \in Over \cup {"result"}
                   /\ error \in {Null, "ValueError", "CancelledError"}
                   /\ launched # Null /\ navigated = request.navigations

StageInv ==
    /\ phase \in Before \cup Inside \cup After \cup Over
    /\ navigated \in Nat
    /\ phase \in Before => Untouched /\ error = Null
    /\ phase \in Before \cup Inside \cup {"extra", "persist"} => ~recorded
    /\ phase = "result" => recorded
    /\ phase \in {"initialize", "plan"} => error = Null
    /\ phase = "initialize" => request.initializers > 0
    /\ phase \in Inside \cup After => launched # Null
    /\ phase = "exit" /\ error = Null => navigated = request.navigations
    /\ phase = "exit" => error \in {Null, "BrowserRuntimeError", "CancelledError"} \cup Refusals
    /\ phase \in After => error = Null /\ navigated = request.navigations
    /\ phase \in Over /\ error = Null => recorded
    /\ phase \notin Inside => ~open

ReportInv ==
    report # Null =>
        /\ phase = "done"
        /\ error \notin Aborted
        /\ \/ report = IF error = Null
                       THEN [ok |-> TRUE, exit |-> 0, type |-> "none", warned |-> FALSE]
                       ELSE [ok |-> FALSE, exit |-> Classify(error).exit,
                             type |-> Classify(error).type, warned |-> warned]
           \/ report = [ok |-> FALSE, exit |-> 1, type |-> "unprinted", warned |-> FALSE]

CommandInv == ConfigInv /\ ErrorInv /\ StageInv /\ ReportInv

-----------------------------------------------------------------------------
(***************************************************************************)
(* The winner of two and of three tiers.                                   *)
(***************************************************************************)
LEMMA LeastIsChosen ==
  ASSUME NEW set \in SUBSET Nat, NEW m \in set, \A j \in set : m <= j
  PROVE  (CHOOSE i \in set : \A j \in set : i <= j) = m
<1> DEFINE k == CHOOSE i \in set : \A j \in set : i <= j
<1>1. k \in set /\ \A j \in set : k <= j
  OBVIOUS
<1> HIDE DEF k
<1>2. k = m
  <2>1. k \in Nat /\ m \in Nat /\ k <= m /\ m <= k
    BY <1>1
  <2> QED
    BY <2>1
<1> QED
  BY <1>2 DEF k

LEMMA WinnerOfTwo ==
  ASSUME NEW a, NEW b
  PROVE  Winner(<<a, b>>) = IF a # Null THEN a ELSE b
<1> DEFINE tiers == <<a, b>>
           set == {i \in 1..Len(tiers) : tiers[i] # Null}
<1>1. Winner(tiers) = IF set = {} THEN Null
                      ELSE tiers[CHOOSE i \in set : \A j \in set : i <= j]
  BY DEF Winner
<1>2. set = {i \in 1..2 : tiers[i] # Null} /\ tiers[1] = a /\ tiers[2] = b
  OBVIOUS
<1> HIDE DEF tiers
<1>3. CASE a # Null
  <2>1. 1 \in set /\ \A j \in set : 1 <= j
    BY <1>2, <1>3
  <2> QED
    BY <1>1, <1>2, <1>3, <2>1, LeastIsChosen DEF tiers
<1>4. CASE a = Null /\ b # Null
  <2>1. 2 \in set /\ \A j \in set : 2 <= j
    BY <1>2, <1>4
  <2> QED
    BY <1>1, <1>2, <1>4, <2>1, LeastIsChosen DEF tiers
<1>5. CASE a = Null /\ b = Null
  BY <1>1, <1>2, <1>5 DEF tiers
<1> QED
  BY <1>3, <1>4, <1>5

LEMMA WinnerOfThree ==
  ASSUME NEW a, NEW b, NEW c
  PROVE  Winner(<<a, b, c>>) = IF a # Null THEN a ELSE IF b # Null THEN b ELSE c
<1> DEFINE tiers == <<a, b, c>>
           set == {i \in 1..Len(tiers) : tiers[i] # Null}
<1>1. Winner(tiers) = IF set = {} THEN Null
                      ELSE tiers[CHOOSE i \in set : \A j \in set : i <= j]
  BY DEF Winner
<1>2. set = {i \in 1..3 : tiers[i] # Null} /\ tiers[1] = a /\ tiers[2] = b /\ tiers[3] = c
  OBVIOUS
<1> HIDE DEF tiers
<1>3. CASE a # Null
  <2>1. 1 \in set /\ \A j \in set : 1 <= j
    BY <1>2, <1>3
  <2> QED
    BY <1>1, <1>2, <1>3, <2>1, LeastIsChosen DEF tiers
<1>4. CASE a = Null /\ b # Null
  <2>1. 2 \in set /\ \A j \in set : 2 <= j
    BY <1>2, <1>4
  <2> QED
    BY <1>1, <1>2, <1>4, <2>1, LeastIsChosen DEF tiers
<1>5. CASE a = Null /\ b = Null /\ c # Null
  <2>1. 3 \in set /\ \A j \in set : 3 <= j
    BY <1>2, <1>5
  <2> QED
    BY <1>1, <1>2, <1>5, <2>1, LeastIsChosen DEF tiers
<1>6. CASE a = Null /\ b = Null /\ c = Null
  BY <1>1, <1>2, <1>6 DEF tiers
<1> QED
  BY <1>3, <1>4, <1>5, <1>6

(***************************************************************************)
(* A session's configuration comes back from the database as it went in,   *)
(* but for what the fingerprint says of the user agent.                    *)
(***************************************************************************)
LEMMA StoredIsAsked ==
  ASSUME NEW a \in Configurations
  PROVE  LET c == Rebuilt(Projected(a)) IN
         /\ c \in Settings
         /\ c.mode = a.mode /\ c.locale = a.locale /\ c.timeout = a.timeout
         /\ c.environment = a.environment /\ c.private = {}
<1> DEFINE p == Projected(a)
           c == Rebuilt(p)
           kept == {"mode", "locale", "timeout", "environment", "captures", "fingerprint"}
<1>1. a \in Settings
  BY CommandAssumption
<1>2. DOMAIN a = kept \cup {"private"}
  BY <1>1 DEF Settings
<1>3. p = [f \in kept |-> IF f = "fingerprint" /\ a[f] # Null THEN "reference" ELSE a[f]]
  BY <1>2 DEF Projected
<1>4. DOMAIN p = kept
  BY <1>3
<1>5. c = [f \in kept \cup {"private"} |-> IF f = "private" THEN {} ELSE p[f]]
  BY <1>4 DEF Rebuilt
<1>6. /\ c.mode = a.mode /\ c.locale = a.locale /\ c.timeout = a.timeout
      /\ c.environment = a.environment /\ c.captures = a.captures
      /\ c.fingerprint = IF a.fingerprint # Null THEN "reference" ELSE a.fingerprint
      /\ c.private = {}
  BY <1>3, <1>5
<1>7. DOMAIN c = kept \cup {"private"}
  BY <1>5
<1>8. c = [mode |-> c.mode, locale |-> c.locale, timeout |-> c.timeout,
           environment |-> c.environment, captures |-> c.captures,
           fingerprint |-> c.fingerprint, private |-> c.private]
  BY <1>5
<1> HIDE DEF c
<1>9. /\ a.captures \in BOOLEAN
      /\ a.fingerprint \in {Null, "reference", "reference and agent"}
      /\ a.private \in SUBSET Private
  BY <1>1 DEF Settings
<1>10. c \in Settings
  BY <1>6, <1>8, <1>9 DEF Settings
<1> QED
  BY <1>6, <1>10 DEF c

(***************************************************************************)
(* The tiers applied one on the other give each field to its winner.       *)
(***************************************************************************)
LEMMA RequestTypes ==
  ASSUME NEW q \in Requests
  PROVE  /\ q.headed \in {Null, TRUE, FALSE}
         /\ q.overrides \in {Null} \cup Overrides
         /\ q.initializers \in Nat /\ q.navigations \in Nat
         /\ q.caller = "cli" => q.initializers = 0 /\ q.navigations = 1
BY CommandAssumption

LEMMA ResolutionFollowsTiers ==
  ASSUME ConfigInv, ~ModesConflict(request),
         SelectedEnvironment(request, stored) \in {Null} \cup DOMAIN Environments,
         request.resolver # Null,
         NEW c \in Resolutions(request, stored)
  PROVE  /\ c \in Settings
         /\ c.mode = Winner(<<FlagMode(request.headed), OverrideOf("mode"), asked.mode>>)
         /\ c.locale = Winner(<<OverrideOf("locale"), ProfileLocale, asked.locale>>)
         /\ c.timeout = Winner(<<OverrideOf("timeout"), asked.timeout>>)
<1> DEFINE id == SelectedEnvironment(request, stored)
           env == EnvironmentTier(id)
           run == RunTier(request)
           base == Apply(stored, env)
           res == Resolved(request, stored)
           names == {"mode", "locale", "timeout", "environment", "captures",
                     "fingerprint", "private"}
<1>1. /\ stored \in Settings
      /\ stored.mode = asked.mode /\ stored.locale = asked.locale
      /\ stored.timeout = asked.timeout /\ stored.environment = asked.environment
  BY StoredIsAsked DEF ConfigInv
<1>2. DOMAIN stored = names
  BY <1>1 DEF Settings
<1>3. res = Apply(base, run)
  BY DEF Resolved
<1>4. /\ id = Null => ProfileLocale = Null
      /\ id # Null => ProfileLocale = Environments[id] /\ id \in DOMAIN Environments
  BY <1>1 DEF SelectedEnvironment, ProfileLocale
<1>5. /\ id = Null => DOMAIN env = {}
      /\ id # Null => /\ DOMAIN env = {"locale", "environment"}
                      /\ env["locale"] = ProfileLocale /\ env["environment"] = id
  BY <1>4 DEF EnvironmentTier
<1>6. /\ DOMAIN run = Fields
      /\ run["mode"] = IF FlagMode(request.headed) # Null THEN FlagMode(request.headed)
                       ELSE OverrideOf("mode")
      /\ run["locale"] = OverrideOf("locale")
      /\ run["timeout"] = OverrideOf("timeout")
  BY DEF RunTier, OverrideOf, Fields
<1> HIDE DEF env, run
<1>7. /\ DOMAIN base = names
      /\ base["mode"] = stored.mode
      /\ base["locale"] = IF ProfileLocale # Null THEN ProfileLocale ELSE stored.locale
      /\ base["timeout"] = stored.timeout
      /\ base["environment"] = IF id # Null THEN id ELSE stored.environment
      /\ base["captures"] = stored.captures
      /\ base["fingerprint"] = stored.fingerprint
      /\ base["private"] = stored.private
  <2>1. base = [f \in names |-> IF f \in DOMAIN env /\ env[f] # Null THEN env[f] ELSE stored[f]]
    BY <1>2 DEF Apply
  <2> HIDE DEF base
  <2>2. CASE id = Null
    BY <1>4, <1>5, <2>1, <2>2
  <2>3. CASE id # Null
    BY <1>5, <2>1, <2>3
  <2> QED
    BY <2>2, <2>3
<1> HIDE DEF base
<1>8. res = [f \in names |-> IF f \in Fields /\ run[f] # Null THEN run[f] ELSE base[f]]
  BY <1>3, <1>6, <1>7 DEF Apply
<1> HIDE DEF res
<1>9. PICK more : c = [res EXCEPT !.private = @ \cup more]
                  /\ more \in IF request.resolver = "custom" THEN Additions ELSE {{}}
  BY DEF Resolutions, res
<1>10. more \subseteq Private
  BY <1>9, CommandAssumption
<1>11. c = [mode |-> c.mode, locale |-> c.locale, timeout |-> c.timeout,
            environment |-> c.environment, captures |-> c.captures,
            fingerprint |-> c.fingerprint, private |-> c.private]
  BY <1>8, <1>9
<1>12. /\ c.mode = IF run["mode"] # Null THEN run["mode"] ELSE base["mode"]
       /\ c.locale = IF run["locale"] # Null THEN run["locale"] ELSE base["locale"]
       /\ c.timeout = IF run["timeout"] # Null THEN run["timeout"] ELSE base["timeout"]
       /\ c.environment = base["environment"] /\ c.captures = base["captures"]
       /\ c.fingerprint = base["fingerprint"] /\ c.private = base["private"] \cup more
  BY <1>8, <1>9 DEF Fields
<1>13. /\ c.mode = Winner(<<FlagMode(request.headed), OverrideOf("mode"), asked.mode>>)
       /\ c.locale = Winner(<<OverrideOf("locale"), ProfileLocale, asked.locale>>)
       /\ c.timeout = Winner(<<OverrideOf("timeout"), asked.timeout>>)
  BY <1>1, <1>6, <1>7, <1>12, WinnerOfTwo, WinnerOfThree
<1>14. c \in Settings
  <2>1. /\ c.mode \in {"headed", "headless"} \cup {x.mode : x \in Configurations}
        /\ c.locale \in {"run"} \cup {x.locale : x \in Configurations}
                           \cup {Environments[e] : e \in DOMAIN Environments}
        /\ c.timeout \in {"run"} \cup {x.timeout : x \in Configurations}
    <3>1. /\ OverrideOf("mode") \in {Null, "headed", "headless"}
          /\ OverrideOf("locale") \in {Null, "run"}
          /\ OverrideOf("timeout") \in {Null, "run"}
          /\ FlagMode(request.headed) \in {Null, "headed", "headless"}
      BY RequestTypes DEF ConfigInv, OverrideOf, FlagMode, Overrides
    <3>2. ProfileLocale # Null => ProfileLocale \in {Environments[e] : e \in DOMAIN Environments}
      BY <1>4
    <3>3. /\ stored.mode \in {x.mode : x \in Configurations}
          /\ stored.locale \in {x.locale : x \in Configurations}
          /\ stored.timeout \in {x.timeout : x \in Configurations}
      BY <1>1 DEF ConfigInv
    <3> QED
      BY <1>6, <1>7, <1>12, <3>1, <3>2, <3>3
  <2>2. c.environment \in DOMAIN Environments \cup {x.environment : x \in Configurations}
    BY <1>1, <1>4, <1>7, <1>12 DEF ConfigInv
  <2>3. /\ c.captures \in BOOLEAN
        /\ c.fingerprint \in {Null, "reference", "reference and agent"}
        /\ c.private \in SUBSET Private
    BY <1>1, <1>7, <1>10, <1>12 DEF Settings
  <2> QED
    BY <1>11, <2>1, <2>2, <2>3 DEF Settings
<1> QED
  BY <1>13, <1>14

-----------------------------------------------------------------------------
(***************************************************************************)
(* The configuration along every step.                                     *)
(***************************************************************************)
Constants == UNCHANGED <<request, asked, stored>>
Settled == UNCHANGED <<request, asked, stored, config, applied, launched>>

LEMMA ConfigKept ==
  ASSUME ConfigInv, Settled,
         phase' \in {"parse", "load", "request", "resolve"} =>
            phase \in {"parse", "load", "request", "resolve"},
         phase' \in {"check", "engine", "enter"} \cup Inside \cup After =>
            phase \in {"check", "engine", "enter"} \cup Inside \cup After,
         phase' \in {"engine", "enter"} => phase \in {"engine", "enter"} \/ Persistable(config)
  PROVE  ConfigInv'
BY DEF ConfigInv, Settled, IsChosen, OverrideOf, ProfileLocale, SelectedEnvironment, Persistable

LEMMA ConfigStep ==
  ASSUME ConfigInv, StageInv, [Next]_vars
  PROVE  ConfigInv'
<1> USE DEF Before, Inside, After, Over, Go, Raise, RaiseAs, RaiseInBody
<1>1. CASE Parse \/ LoadRecords \/ BuildRequest
  <2>1. /\ Settled
        /\ phase \in {"parse", "load", "request"}
        /\ phase' \in {"load", "request", "resolve", "report"}
    BY <1>1 DEF Parse, LoadRecords, BuildRequest, Settled
  <2> QED
    BY <2>1, ConfigKept
<1>2. CASE ResolveConfig
  <2>1. CASE phase' = "report"
    <3>1. Constants /\ UNCHANGED <<config, applied, launched>>
      BY <1>2, <2>1 DEF ResolveConfig, Constants
    <3> QED
      BY <2>1, <3>1, ConfigKept DEF Constants, Settled
  <2>2. CASE phase' # "report"
    <3>1. /\ ~ModesConflict(request) /\ request.resolver # Null
          /\ SelectedEnvironment(request, stored) \in {Null} \cup DOMAIN Environments
          /\ config' \in Resolutions(request, stored)
          /\ applied' = AppliedFields(request, stored)
          /\ phase' = "check" /\ Constants /\ launched' = launched /\ phase = "resolve"
      BY <1>2, <2>2 DEF ResolveConfig, Constants
    <3>2. launched = Null
      BY <3>1 DEF StageInv, Untouched
    <3>3. stored.environment = asked.environment
      BY StoredIsAsked DEF ConfigInv
    <3>4. "locale" \in applied' <=> ProfileLocale # Null /\ OverrideOf("locale") = Null
      <4>1. RunTier(request)["locale"] = OverrideOf("locale")
        BY DEF RunTier, OverrideOf, Fields
      <4> QED
        BY <3>1, <3>3, <4>1 DEF AppliedFields, ProfileLocale, SelectedEnvironment
    <3>5. /\ config' \in Settings
          /\ config'.mode = Winner(<<FlagMode(request.headed), OverrideOf("mode"), asked.mode>>)
          /\ config'.locale = Winner(<<OverrideOf("locale"), ProfileLocale, asked.locale>>)
          /\ config'.timeout = Winner(<<OverrideOf("timeout"), asked.timeout>>)
      BY <3>1, ResolutionFollowsTiers
    <3>6. IsChosen(config)'
      BY <3>1, <3>4, <3>5
         DEF IsChosen, Constants, OverrideOf, ProfileLocale, SelectedEnvironment
    <3> QED
      BY <3>1, <3>2, <3>6 DEF ConfigInv, Constants
  <2> QED
    BY <2>1, <2>2
<1>3. CASE KeepConfig
  <2>1. CASE request.overrides # Null
    <3>1. Settled /\ phase' = "report"
      BY <1>3, <2>1 DEF KeepConfig, Settled
    <3> QED
      BY <3>1, ConfigKept
  <2>2. CASE request.overrides = Null
    <3> DEFINE mode == IF FlagMode(request.headed) = Null
                       THEN stored.mode ELSE FlagMode(request.headed)
    <3>1. /\ config' = [stored EXCEPT !.mode = mode]
          /\ phase = "resolve" /\ phase' = "check" /\ request.resolver = Null
          /\ Constants /\ UNCHANGED <<applied, launched>>
      BY <1>3, <2>2 DEF KeepConfig, Constants
    <3>2. launched = Null /\ applied = {}
      BY <3>1 DEF StageInv, Untouched, ConfigInv
    <3>3. /\ stored \in Settings
          /\ stored.mode = asked.mode /\ stored.locale = asked.locale
          /\ stored.timeout = asked.timeout
      BY StoredIsAsked DEF ConfigInv
    <3>4. /\ OverrideOf("mode") = Null /\ OverrideOf("locale") = Null
          /\ OverrideOf("timeout") = Null /\ ProfileLocale = Null
      BY <2>2, <3>1 DEF OverrideOf, ProfileLocale
    <3>5. mode = Winner(<<FlagMode(request.headed), OverrideOf("mode"), asked.mode>>)
      BY <3>3, <3>4, WinnerOfThree
    <3>6. /\ config' \in Settings /\ config'.mode = mode
          /\ config'.locale = stored.locale /\ config'.timeout = stored.timeout
      <4>1. mode \in {"headed", "headless"} \cup {x.mode : x \in Configurations}
        BY <3>3 DEF ConfigInv, FlagMode
      <4> HIDE DEF mode
      <4> QED
        BY <3>1, <3>3, <4>1 DEF Settings
    <3>7. /\ stored.locale = Winner(<<OverrideOf("locale"), ProfileLocale, asked.locale>>)
          /\ stored.timeout = Winner(<<OverrideOf("timeout"), asked.timeout>>)
      BY <3>3, <3>4, WinnerOfThree, WinnerOfTwo
    <3> HIDE DEF mode
    <3>8. IsChosen(config)'
      BY <3>1, <3>2, <3>4, <3>5, <3>6, <3>7
         DEF IsChosen, Constants, OverrideOf, ProfileLocale, SelectedEnvironment
    <3> QED
      BY <3>1, <3>2, <3>8 DEF ConfigInv, Constants
  <2> QED
    BY <2>1, <2>2
<1>4. CASE CheckConfig \/ BuildEngine
  <2>1. /\ Settled
        /\ phase' \in {"engine", "enter"} => phase \in {"engine", "enter"} \/ Persistable(config)
        /\ phase \in {"check", "engine"}
        /\ phase' \in {"engine", "enter", "report"}
    BY <1>4 DEF CheckConfig, BuildEngine, Settled
  <2> QED
    BY <2>1, ConfigKept
<1>5. CASE Enter
  <2>1. /\ Constants /\ UNCHANGED <<config, applied>>
        /\ launched' = config /\ phase = "enter" /\ phase' \in {"initialize", "plan"}
        /\ config.fingerprint = Null
    BY <1>5 DEF Enter, Constants, Runnable
  <2>2. IsChosen(config) /\ config.private = {}
    BY <2>1 DEF ConfigInv, Persistable
  <2>3. IsChosen(config)'
    BY <2>1, <2>2 DEF IsChosen, Constants, OverrideOf, ProfileLocale, SelectedEnvironment
  <2> QED
    BY <2>1, <2>2, <2>3 DEF ConfigInv, Constants
<1>6. CASE EnterFails
  <2>1. Settled /\ phase' = "report"
    BY <1>6 DEF EnterFails, Settled
  <2> QED
    BY <2>1, ConfigKept
<1>7. CASE Initialize \/ Capture \/ PlanEnds \/ Interrupt \/ CheckExtra
  <2>1. /\ Settled
        /\ phase \in Inside \cup After
        /\ phase' \in Inside \cup After \cup {"report"}
    BY <1>7 DEF Initialize, Capture, PlanEnds, Interrupt, CheckExtra, Settled
  <2> QED
    BY <2>1, ConfigKept
<1>8. CASE Navigate \/ Exit
  <2>1. /\ Settled
        /\ phase \in Inside
        /\ phase' \in Inside \cup After \cup {"report"}
    BY <1>8 DEF Navigate, Exit, Settled
  <2> QED
    BY <2>1, ConfigKept
<1>9. CASE Persist \/ PersistFails \/ InterruptPersist \/ BuildResult \/ Report \/ ReportFails
  <2>1. /\ Settled
        /\ phase' \in {"result", "report", "done"}
        /\ phase' = "result" => phase = "persist"
    BY <1>9 DEF Persist, PersistFails, InterruptPersist, BuildResult, Report, ReportFails,
                Settled
  <2> QED
    BY <2>1, ConfigKept
<1>10. CASE UNCHANGED vars
  BY <1>10, ConfigKept DEF vars, Settled
<1> QED
  BY <1>1, <1>2, <1>3, <1>4, <1>5, <1>6, <1>7, <1>8, <1>9, <1>10 DEF Next

-----------------------------------------------------------------------------
(***************************************************************************)
(* How far the command is, and what its exception says of that, along      *)
(* every step.                                                             *)
(***************************************************************************)
LEMMA NamesAreNotNull ==
  \A e \in {"PersistenceFailure", "ValueError", "CancelledError"} \cup Refusals \cup LoadErrors
              \cup CloseErrors \cup BrowserErrors : e # Null
BY NullAssumption
   DEF Exceptions, SightStalkerErrors, Native, Cli, Service, Refusals, LoadErrors,
       CloseErrors, BrowserErrors

\* What is raised of a plan's failure.
LEMMA PlanErrors ==
  /\ PlanError("PlaywrightError") = "BrowserRuntimeError"
  /\ PlanError("DiagnosticError") = "BrowserRuntimeError"
  /\ PlanError("SecurityRefusal") = "SecurityRefusal"
  /\ PlanError("CancelledError") = "CancelledError"
BY DEF PlanError, SightStalkerErrors, Native

LEMMA StageStep ==
  ASSUME ConfigInv, StageInv, ErrorInv, [Next]_vars
  PROVE  StageInv' /\ ErrorInv'
<1>0. /\ request.initializers \in Nat /\ request.navigations \in Nat
      /\ request.caller = "cli" => request.initializers = 0 /\ request.navigations = 1
      /\ phase = "enter" => config # Null
  BY RequestTypes, NullAssumption DEF ConfigInv, IsChosen
<1> USE <1>0, NamesAreNotNull, PlanErrors
    DEF StageInv, ErrorInv, Before, Inside, After, Over, Untouched, Refusals, LoadErrors,
        CloseErrors, BrowserErrors, Go, Raise, RaiseAs, RaiseInBody
<1>1. CASE Parse
  BY <1>1 DEF Parse
<1>2. CASE LoadRecords
  BY <1>2 DEF LoadRecords
<1>3. CASE BuildRequest
  BY <1>3 DEF BuildRequest
<1>4. CASE ResolveConfig
  BY <1>4 DEF ResolveConfig
<1>5. CASE KeepConfig
  BY <1>5 DEF KeepConfig
<1>6. CASE CheckConfig
  BY <1>6 DEF CheckConfig
<1>7. CASE BuildEngine
  BY <1>7 DEF BuildEngine
<1>8. CASE Enter
  BY <1>8 DEF Enter, Runnable
<1>9. CASE EnterFails
  BY <1>9 DEF EnterFails, Runnable
<1>10. CASE Initialize
  BY <1>10 DEF Initialize
<1>11. CASE Navigate
  BY <1>11 DEF Navigate, NavigationAllowed
<1>12. CASE Capture
  BY <1>12 DEF Capture
<1>13. CASE PlanEnds
  BY <1>13 DEF PlanEnds
<1>14. CASE Interrupt
  BY <1>14 DEF Interrupt
<1>15. CASE Exit
  BY <1>15 DEF Exit, Closed
<1>16. CASE CheckExtra
  BY <1>16 DEF CheckExtra
<1>17. CASE Persist
  BY <1>17 DEF Persist
<1>18. CASE PersistFails
  BY <1>18 DEF PersistFails, RowsRollBack
<1>19. CASE InterruptPersist
  BY <1>19 DEF InterruptPersist
<1>20. CASE Report
  BY <1>20 DEF Report
<1>21. CASE BuildResult
  BY <1>21 DEF BuildResult
<1>22. CASE ReportFails
  BY <1>22 DEF ReportFails
<1>23. CASE UNCHANGED vars
  BY <1>23 DEF vars
<1> QED
  BY <1>1, <1>2, <1>3, <1>4, <1>5, <1>6, <1>7, <1>8, <1>9, <1>10, <1>11, <1>12, <1>13, <1>14,
     <1>15, <1>16, <1>17, <1>18, <1>19, <1>20, <1>21, <1>22, <1>23
     DEF Next

LEMMA ReportStep ==
  ASSUME StageInv, ReportInv, [Next]_vars
  PROVE  ReportInv'
<1> USE DEF StageInv, ReportInv, Before, Inside, After, Over
<1>1. CASE Report \/ ReportFails
  BY <1>1 DEF Report, ReportFails
<1>2. CASE Next /\ ~Report /\ ~ReportFails
  <2>1. report' = report /\ phase # "done"
    BY <1>2 DEF Next, Parse, LoadRecords, BuildRequest, ResolveConfig, KeepConfig,
                CheckConfig, BuildEngine, Enter, EnterFails, Initialize, Navigate,
                Capture, PlanEnds, Interrupt, Exit, CheckExtra, Persist, PersistFails,
                InterruptPersist, BuildResult
  <2> QED
    BY <2>1
<1>3. CASE UNCHANGED vars
  BY <1>3 DEF vars
<1> QED
  BY <1>1, <1>2, <1>3

LEMMA CommandInit == Init => CommandInv
<1> SUFFICES ASSUME Init PROVE CommandInv
  OBVIOUS
<1> USE DEF Init
<1>1. ConfigInv
  BY DEF ConfigInv, Inside, After
<1>2. StageInv /\ ErrorInv
  BY NamesAreNotNull
     DEF StageInv, ErrorInv, Before, Inside, After, Over, Untouched, Refusals,
         LoadErrors, CloseErrors, BrowserErrors
<1>3. ReportInv
  BY DEF ReportInv
<1> QED
  BY <1>1, <1>2, <1>3 DEF CommandInv

(***************************************************************************)
(* The inductive invariant of a command: what its configuration is, how    *)
(* far it got, what its exception means, and what it was told.             *)
(***************************************************************************)
THEOREM CommandCorrect == Spec => []CommandInv
<1>1. CommandInv /\ [Next]_vars => CommandInv'
  BY ConfigStep, StageStep, ReportStep DEF CommandInv
<1> QED
  BY <1>1, CommandInit, PTL DEF Spec

(***************************************************************************)
(* Each launched field is the one of the highest tier that has it.         *)
(***************************************************************************)
THEOREM PrecedenceHolds == Spec => []ConfigFollowsPrecedence
<1>1. CommandInv => ConfigFollowsPrecedence
  BY DEF CommandInv, ConfigInv, IsChosen, ConfigFollowsPrecedence
<1> QED
  BY <1>1, CommandCorrect, PTL

(***************************************************************************)
(* What could not be stored is never launched, whoever supplied it.        *)
(***************************************************************************)
THEOREM PrivateIsNotLaunched == Spec => []NothingPrivateIsLaunched
<1>1. CommandInv => NothingPrivateIsLaunched
  BY DEF CommandInv, ConfigInv, NothingPrivateIsLaunched
<1> QED
  BY <1>1, CommandCorrect, PTL

(***************************************************************************)
(* The exit codes of the exceptions a command can end with.                *)
(***************************************************************************)
LEMMA NativeExits ==
  /\ Classify("UsageError").exit = 2
  /\ Classify("SecurityRefusal").exit = 6
  /\ Classify("BrowserRuntimeError").exit = 4
  /\ Classify("PersistenceFailure").exit = 3
BY DEF Classify, SightStalkerErrors, Native, Outcome

LEMMA CliExits ==
  /\ Classify("CliUsageError").exit = 2
  /\ Classify("CliSecurityError").exit = 6
  /\ Classify("CliBrowserError").exit = 4
<1>1. \A e \in DOMAIN Cli : Classify(e) = CliOutcome(e)
  BY DEF Classify, SightStalkerErrors, Native, Cli
<1> QED
  BY <1>1 DEF CliOutcome, Cli, Outcome

LEMMA ServiceExits ==
  /\ Classify("PersistenceError").exit = 3
  /\ Classify("SQLAlchemyError").exit = 3
  /\ Classify("SessionStateError").exit = 1
  /\ Classify("ArtifactError").exit = 1
  /\ Classify("PlaywrightError").exit = 1
<1>1. \A e \in DOMAIN Service : Classify(e) = Service[e]
  BY DEF Classify, SightStalkerErrors, Native, Cli, Service
<1>2. Classify("PlaywrightError") = Internal
  BY DEF Classify, SightStalkerErrors, Native, Cli, Service
<1> QED
  BY <1>1, <1>2 DEF Service, Outcome, Internal

LEMMA InternalExits ==
  Classify("ValueError").exit = 1 /\ Classify("ValueError").type = "InternalError"
<1>1. Classify("ValueError") = Internal
  BY DEF Classify, SightStalkerErrors, Native, Cli, Service
<1> QED
  BY <1>1 DEF Internal, Outcome

(***************************************************************************)
(* A reported success is recorded, an exit code that names a failure is of *)
(* a run that left no row, and a recorded run not reported as one is whole *)
(* and exits with 1.                                                       *)
(***************************************************************************)
THEOREM ReportsAreTrue == Spec => []ReportAgreesWithDatabase
<1>1. CommandInv => ReportAgreesWithDatabase
  <2> SUFFICES ASSUME CommandInv, report # Null
               PROVE  /\ report.ok => recorded
                      /\ report.exit \notin {0, 1} => ~recorded
                      /\ recorded /\ ~report.ok =>
                            /\ report.exit = 1 /\ report.type \in {"InternalError", "unprinted"}
                            /\ launched # Null /\ navigated = request.navigations /\ ~open
    BY DEF ReportAgreesWithDatabase
  <2>1. /\ phase = "done" /\ ~open
        /\ error \notin Aborted
        /\ error = Null => recorded
        /\ recorded => /\ error \in {Null, "ValueError", "CancelledError"}
                       /\ launched # Null /\ navigated = request.navigations
    BY DEF CommandInv, StageInv, ErrorInv, ReportInv, Over, Inside
  <2>2. recorded => error \in {Null, "ValueError"}
    BY <2>1 DEF Aborted
  <2>3. CASE report = [ok |-> FALSE, exit |-> 1, type |-> "unprinted", warned |-> FALSE]
    BY <2>1, <2>3
  <2>4. CASE report # [ok |-> FALSE, exit |-> 1, type |-> "unprinted", warned |-> FALSE]
    <3>1. report = IF error = Null
                   THEN [ok |-> TRUE, exit |-> 0, type |-> "none", warned |-> FALSE]
                   ELSE [ok |-> FALSE, exit |-> Classify(error).exit,
                         type |-> Classify(error).type, warned |-> warned]
      BY <2>4 DEF CommandInv, ReportInv
    <3>2. CASE error = Null
      BY <2>1, <3>1, <3>2
    <3>3. CASE error = "ValueError"
      BY <2>1, <3>1, <3>3, NamesAreNotNull, InternalExits
    <3>4. CASE error \notin {Null, "ValueError"}
      BY <2>2, <3>1, <3>4
    <3> QED
      BY <3>2, <3>3, <3>4
  <2> QED
    BY <2>3, <2>4
<1> QED
  BY <1>1, CommandCorrect, PTL

(***************************************************************************)
(* An exit code tells how far its command got.                             *)
(***************************************************************************)
THEOREM ExitCodesTellTheStage == Spec => []ExitCodeTellsTheStage
<1>1. CommandInv => ExitCodeTellsTheStage
  <2> SUFFICES ASSUME CommandInv, request.caller = "cli", report # Null
               PROVE  /\ ~open
                      /\ report.exit \in {2, 6} => Untouched
                      /\ report.exit = 3 => IF report.warned THEN launched # Null ELSE Untouched
                      /\ report.exit = 1 /\ report.type # "unprinted" =>
                            Untouched \/ (launched # Null /\ navigated = 1)
    BY DEF ExitCodeTellsTheStage
  <2>0. CASE report = [ok |-> FALSE, exit |-> 1, type |-> "unprinted", warned |-> FALSE]
    BY <2>0 DEF CommandInv, StageInv, ReportInv, Inside
  <2> SUFFICES ASSUME report # [ok |-> FALSE, exit |-> 1, type |-> "unprinted",
                                warned |-> FALSE]
               PROVE  /\ ~open
                      /\ report.exit \in {2, 6} => Untouched
                      /\ report.exit = 3 => IF report.warned THEN launched # Null ELSE Untouched
                      /\ report.exit = 1 => Untouched \/ (launched # Null /\ navigated = 1)
    BY <2>0
  <2>1. /\ phase = "done" /\ ~open
        /\ error \notin Aborted
        /\ error = Null => report.exit = 0
        /\ error # Null => report.exit = Classify(error).exit /\ report.warned = warned
    BY DEF CommandInv, StageInv, ReportInv, Inside
  <2>2. /\ ErrorInv
        /\ request.navigations = 1
    BY RequestTypes DEF CommandInv, ConfigInv
  <2>3. CASE error = Null
    BY <2>1, <2>3
  <2>4. CASE error \in Refusals
    BY <2>1, <2>2, <2>4, NamesAreNotNull, NativeExits, CliExits DEF ErrorInv, Refusals
  <2>5. CASE error \in LoadErrors
    <3>1. report.exit = 3 /\ ~report.warned
      BY <2>1, <2>2, <2>5, NamesAreNotNull, ServiceExits DEF ErrorInv, LoadErrors
    <3> QED
      BY <2>1, <2>2, <2>5, <3>1 DEF ErrorInv
  <2>6. CASE error \in CloseErrors
    <3>1. report.exit = 1
      BY <2>1, <2>6, NamesAreNotNull, ServiceExits DEF CloseErrors
    <3> QED
      BY <2>1, <2>2, <2>6, <3>1 DEF ErrorInv
  <2>7. CASE error = "PersistenceFailure"
    <3>1. report.exit = 3 /\ report.warned
      BY <2>1, <2>2, <2>7, NamesAreNotNull, NativeExits DEF ErrorInv
    <3> QED
      BY <2>1, <2>2, <2>7, <3>1 DEF ErrorInv
  <2>8. CASE error \in BrowserErrors
    <3>1. report.exit = 4
      BY <2>1, <2>8, NamesAreNotNull, NativeExits, CliExits DEF BrowserErrors
    <3> QED
      BY <2>1, <3>1
  <2>9. CASE error = "ValueError"
    <3>1. report.exit = 1
      BY <2>1, <2>9, NamesAreNotNull, InternalExits
    <3> QED
      BY <2>1, <2>2, <2>9, <3>1 DEF ErrorInv
  <2> QED
    BY <2>1, <2>2, <2>3, <2>4, <2>5, <2>6, <2>7, <2>8, <2>9 DEF ErrorInv, Aborted
<1> QED
  BY <1>1, CommandCorrect, PTL

=============================================================================
