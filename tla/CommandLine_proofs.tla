------------------------- MODULE CommandLine_proofs ------------------------
(***************************************************************************)
(* Proofs about the program, for any command line, any library path and    *)
(* any disk: it uses the embedding interface as its clients do, so what is *)
(* proved of that holds of it; and what it makes of the library path.      *)
(***************************************************************************)
EXTENDS Usage, Evaluation_proofs, SequenceTheorems, FiniteSetTheorems

Settings == {"expr", "file", "limit", "quiet", "trace", "prelude", "args"}

(* What is read from the words can be given to ls_eval_string.             *)
SettingsOK(s) ==
    /\ s = [f \in Settings |-> s[f]]
    /\ s.limit \in Limits
    /\ s.trace \in BOOLEAN

(* The prefixes that ensure_directory_exists has passed: directories, but  *)
(* for the last, which may be a file or a link to nothing.                 *)
Passed(k) ==
    /\ \A j \in 1..(k - 2) : store[j] = "dir"
    /\ k > 1 => store[k - 1] # "absent"

Walk ==
    /\ pc \in {"stat", "mkdir"} => at \in 1..(Depth + 1) /\ Passed(at)
    /\ pc = "mkdir" => at <= Depth
    /\ pc \in {"newstate", "evaluating", "done"} => Passed(Depth + 1)

(* Nothing is printed before the process reports or gives up.              *)
Silence ==
    /\ pc \notin {"done", "exited"} => stderr = <<>>
    /\ stderr = <<"store">> => pc = "exited"

MainInv ==
    /\ SettingsOK(settings)
    /\ start.store \in [1..Depth -> Standing]
    /\ store \in [1..Depth -> Standing]
    /\ Walk
    /\ Silence
    /\ StoreFailureIsReal

-----------------------------------------------------------------------------
LEMMA DefaultsAreSettings == SettingsOK(DefaultSettings)
  BY StepLimitsAssumption DEF SettingsOK, DefaultSettings, Settings

(* One field of the settings replaced.                                     *)
LEMMA ChosenAreSettings ==
    ASSUME NEW s, SettingsOK(s), NEW v
    PROVE  /\ SettingsOK([s EXCEPT !.expr = v])
           /\ SettingsOK([s EXCEPT !.file = v])
           /\ SettingsOK([s EXCEPT !.args = v])
           /\ SettingsOK([s EXCEPT !.quiet = v])
           /\ SettingsOK([s EXCEPT !.prelude = v])
           /\ v \in BOOLEAN => SettingsOK([s EXCEPT !.trace = v])
           /\ v \in Limits => SettingsOK([s EXCEPT !.limit = v])
  BY DEF SettingsOK, Settings

(* A word read: the settings stay settings, the store is not touched, and  *)
(* the process prints nothing, or one message and exits.                   *)
Complaints == {"usage", "invalid step limit", "unknown option"}
WordRead ==
    /\ SettingsOK(settings')
    /\ UNCHANGED <<store, start, apiVars>>
    /\ \/ pc' \in {"options", "check"} /\ stderr' = stderr
       \/ pc' = "exited" /\ \E m \in Complaints : stderr' = Append(stderr, m)

LEMMA TakeReads ==
    ASSUME pc = "options", NEW n, NEW s, SettingsOK(s), Take(n, s)
    PROVE  WordRead
  BY DEF Take, WordRead

LEMMA StopReads ==
    ASSUME NEW s, SettingsOK(s), Stop(s)
    PROVE  WordRead
  BY DEF Stop, WordRead

LEMMA ExitReads ==
    ASSUME SettingsOK(settings), NEW n, NEW m \in Complaints, Exit(n, m)
    PROVE  WordRead
  BY DEF Exit, Ends, WordRead

LEMMA ReadingStep ==
    ASSUME SettingsOK(settings), ReadWord
    PROVE  WordRead /\ pc = "options"
  <1>0. pc = "options"
    BY DEF ReadWord, ReadSeparator, ReadExpr, ReadLimit, ReadSwitch, ReadHelp, ReadUnknown,
           ReadFree, ReadEnd, Reading
  <1>1. CASE ReadSeparator \/ ReadEnd
    <2>1. SettingsOK([settings EXCEPT !.args = From(at + 1)])
      BY ChosenAreSettings
    <2> QED
      <3>1. Stop([settings EXCEPT !.args = From(at + 1)]) \/ Stop(settings)
        BY <1>1 DEF ReadSeparator, ReadEnd
      <3> QED
        BY <1>0, <2>1, <3>1, StopReads
  <1>2. CASE ReadExpr
    <2>1. SettingsOK([settings EXCEPT !.expr = Argv[at + 1]])
      BY ChosenAreSettings
    <2> QED
      BY <1>0, <1>2, <2>1, TakeReads, ExitReads DEF ReadExpr, Complaints
  <1>3. CASE ReadLimit
    <2>1. CASE HasNext /\ IsLimit(Argv[at + 1])
      <3>1. LimitRead(Argv[at + 1]) \in Limits
        BY <2>1, NumbersAssumption DEF IsLimit
      <3>2. SettingsOK([settings EXCEPT !.limit = LimitRead(Argv[at + 1])])
        BY <3>1, ChosenAreSettings
      <3> QED
        BY <1>0, <1>3, <2>1, <3>2, TakeReads DEF ReadLimit
    <2>2. CASE ~(HasNext /\ IsLimit(Argv[at + 1]))
      BY <1>0, <1>3, <2>2, ExitReads DEF ReadLimit, Complaints
    <2> QED
      BY <2>1, <2>2
  <1>4. CASE ReadSwitch
    <2>1. /\ SettingsOK([settings EXCEPT !.quiet = TRUE])
          /\ SettingsOK([settings EXCEPT !.trace = TRUE])
          /\ SettingsOK([settings EXCEPT !.prelude = FALSE])
      BY ChosenAreSettings
    <2> QED
      <3>1. \/ Take(1, [settings EXCEPT !.quiet = TRUE])
            \/ Take(1, [settings EXCEPT !.trace = TRUE])
            \/ Take(1, [settings EXCEPT !.prelude = FALSE])
        BY <1>4 DEF ReadSwitch
      <3> QED
        BY <1>0, <2>1, <3>1, TakeReads
  <1>5. CASE ReadHelp \/ ReadUnknown
    <2>1. Exit(0, "usage") \/ Exit(1, "unknown option")
      BY <1>5 DEF ReadHelp, ReadUnknown
    <2> QED
      BY <1>0, <2>1, ExitReads DEF Complaints
  <1>6. CASE ReadFree
    <2>1. /\ SettingsOK([settings EXCEPT !.file = Word])
          /\ SettingsOK([settings EXCEPT !.args = From(at)])
      BY ChosenAreSettings
    <2> QED
      <3>1. \/ Take(1, [settings EXCEPT !.file = Word])
            \/ Stop([settings EXCEPT !.args = From(at)])
        BY <1>6 DEF ReadFree
      <3> QED
        BY <1>0, <2>1, <3>1, TakeReads, StopReads
  <1> QED
    BY <1>0, <1>1, <1>2, <1>3, <1>4, <1>5, <1>6 DEF ReadWord

(* Every step of main is one of the interface or leaves it alone.          *)
LEMMA MainStepsAreCalls == SettingsOK(settings) /\ [Next]_vars => [ApiNext]_apiVars
  <1> SUFFICES ASSUME SettingsOK(settings), [Next]_vars PROVE [ApiNext]_apiVars
    OBVIOUS
  <1>1. CASE ReadWord
    BY <1>1, ReadingStep DEF WordRead
  <1>2. CASE RefuseConflict \/ NoMemory \/ CopyFails \/ MkdirFails \/ StdinFails
    BY <1>2 DEF RefuseConflict, NoMemory, CopyFails, MkdirFails, StdinFails, Exit, Starve, Ends
  <1>3. CASE CheckDone \/ Stat \/ Mkdir \/ MkdirExists \/ StoreDone \/ Report \/ OtherMakes
    BY <1>3 DEF CheckDone, Stat, Mkdir, MkdirExists, MkdirDone, StoreDone, Report, OtherMakes
  <1>4. CASE Evaluate \/ Unreadable
    <2>1. OptionsRead \in Options
      BY DEF SettingsOK, OptionsRead, Options
    <2> QED
      BY <1>4, <2>1, ObjectsAssumption DEF Evaluate, Unreadable, ApiNext, Caller
  <1>5. CASE Evaluating
    BY <1>5 DEF Evaluating, ApiNext
  <1>6. CASE Release
    BY <1>6, ObjectsAssumption DEF Release, ApiNext, Caller
  <1>7. CASE ClientStep
    BY <1>7 DEF ClientStep
  <1>8. CASE UNCHANGED vars
    BY <1>8 DEF vars
  <1> QED
    BY <1>1, <1>2, <1>3, <1>4, <1>5, <1>6, <1>7, <1>8 DEF Next, Main

-----------------------------------------------------------------------------
LEMMA MainInit == Init => MainInv
  <1> SUFFICES ASSUME Init PROVE MainInv
    OBVIOUS
  <1>1. start.store \in [1..Depth -> Standing]
    BY StartsAssumption DEF Init, Client, Standing
  <1> QED
    BY <1>1, DefaultsAreSettings DEF Init, MainInv, Walk, Silence, StoreFailureIsReal

(* One message more is not the one of a lost store, unless that is it.     *)
LEMMA OneMessage ==
    ASSUME stderr = <<>>, NEW m
    PROVE  Append(stderr, m) = <<m>>
  OBVIOUS

LEMMA NotTheStore ==
    ASSUME NEW m, m # "store"
    PROVE  <<m>> # <<"store">>
  <1>1. <<m>>[1] # <<"store">>[1]
    OBVIOUS
  <1> QED
    BY <1>1

LEMMA ExitKeeps ==
    ASSUME MainInv, NEW n, NEW m, Ends(n, m), m # "store" \/ StoreFailureIsReal',
           pc \notin {"done", "exited"}
    PROVE  MainInv'
  <1>1. stderr' = <<m>>
    BY OneMessage DEF MainInv, Silence, Ends
  <1>2. m = "store" \/ stderr' # <<"store">>
    BY <1>1
  <1> QED
    BY <1>2 DEF Ends, MainInv, Walk, Silence, StoreFailureIsReal

(* Between two names of the path nothing but the walk goes on.             *)
LEMMA WalkStep ==
    ASSUME MainInv, CheckDone \/ Stat \/ Mkdir \/ MkdirExists \/ StoreDone \/ OtherMakes
    PROVE  MainInv'
  <1> USE DepthAssumption
  <1>1. /\ start' = start /\ settings' = settings /\ stderr' = stderr
        /\ pc \in {"check", "stat", "mkdir"} /\ pc' \in {"stat", "mkdir", "newstate"}
    BY DEF CheckDone, Stat, Mkdir, MkdirExists, MkdirDone, StoreDone, OtherMakes
  <1>2. stderr' = <<>>
    BY <1>1 DEF MainInv, Silence
  <1>3. Silence' /\ StoreFailureIsReal'
    BY <1>1, <1>2 DEF Silence, StoreFailureIsReal
  <1>4. store' \in [1..Depth -> Standing]
    <2>1. store' = store \/ \E k \in 1..Depth : store' = [store EXCEPT ![k] = "dir"]
      BY DEF CheckDone, Stat, Mkdir, MkdirExists, MkdirDone, StoreDone, OtherMakes, MainInv, Walk
    <2> QED
      BY <2>1 DEF MainInv, Standing
  <1>5. Walk'
    <2>1. CASE CheckDone
      BY <2>1 DEF CheckDone, Walk, Passed
    <2>2. CASE Stat
      <3>1. at \in 1..Depth /\ Passed(at) /\ store' = store
        BY <2>2 DEF Stat, MainInv, Walk
      <3>2. CASE missing'
        BY <2>2, <3>1, <3>2 DEF Stat, Walk, Passed
      <3>3. CASE ~missing'
        <4>1. (\A j \in 1..(at - 1) : store[j] = "dir") /\ store[at] # "absent"
          BY <2>2, <3>3 DEF Stat, Reachable
        <4>2. pc' = "stat" /\ at' = at + 1
          BY <2>2, <3>3 DEF Stat
        <4>3. Passed(at + 1)
          BY <3>1, <4>1 DEF Passed
        <4> QED
          BY <3>1, <4>2, <4>3 DEF Walk, Passed
      <3> QED
        BY <3>2, <3>3
    <2>3. CASE Mkdir \/ MkdirExists
      <3>1. at \in 1..Depth /\ \A j \in 1..(at - 1) : store[j] = "dir"
        BY <2>3 DEF Mkdir, MkdirExists, Makeable, Reachable, MainInv, Walk
      <3>2. store' \in {store, [store EXCEPT ![at] = "dir"]} /\ store'[at] # "absent"
        BY <2>3, <3>1 DEF Mkdir, MkdirExists, MkdirDone, MainInv
      <3>3. \A j \in 1..(at - 1) : store'[j] = "dir"
        BY <3>1, <3>2 DEF MainInv
      <3>4. pc' = "stat" /\ at' = at + 1
        BY <2>3 DEF Mkdir, MkdirExists, MkdirDone
      <3> QED
        BY <3>1, <3>2, <3>3, <3>4 DEF Walk, Passed
    <2>4. CASE StoreDone
      <3>1. pc' = "newstate" /\ store' = store /\ Passed(at) /\ at = Depth + 1
        BY <2>4 DEF StoreDone, MainInv, Walk
      <3> QED
        BY <3>1 DEF Walk, Passed
    <2>5. CASE OtherMakes
      <3>1. PICK k \in 1..Depth : store' = [store EXCEPT ![k] = "dir"]
        BY <2>5 DEF OtherMakes
      <3>2. \A j \in 1..Depth : store'[j] = store[j] \/ store'[j] = "dir"
        BY <3>1 DEF MainInv
      <3>3. pc' = pc /\ at' = at /\ at \in 1..(Depth + 1) /\ Passed(at) /\ (pc = "mkdir" => at <= Depth)
        BY <1>1, <2>5 DEF OtherMakes, MainInv, Walk
      <3>4. \A j \in 1..(at - 2) : store'[j] = "dir"
        BY <3>2, <3>3 DEF Passed
      <3>5. at > 1 => store'[at - 1] # "absent"
        BY <3>2, <3>3 DEF Passed
      <3> QED
        BY <1>1, <3>3, <3>4, <3>5 DEF Walk, Passed
    <2> QED
      BY <2>1, <2>2, <2>3, <2>4, <2>5
  <1> QED
    BY <1>1, <1>3, <1>4, <1>5 DEF MainInv

(* mkdir has failed, and not because something is there already.           *)
LEMMA LostStoreIsReal ==
    ASSUME MainInv, MkdirFails
    PROVE  StoreFailureIsReal'
  <1> USE DepthAssumption
  <1>1. /\ start' = start /\ store' = store /\ at' = at
        /\ at \in 1..Depth /\ Passed(at)
        /\ store \in [1..Depth -> Standing]
    BY DEF MkdirFails, Exit, Ends, MainInv, Walk
  <1>2. CASE Reachable(at)
    <2>1. at \in start.denied
      BY <1>2 DEF MkdirFails, Makeable
    <2> QED
      BY <1>1, <2>1 DEF StoreFailureIsReal
  <1>3. CASE ~Reachable(at)
    <2>1. PICK j \in 1..(at - 1) : store[j] # "dir"
      BY <1>3 DEF Reachable
    <2>2. j = at - 1 /\ store[j] # "absent"
      BY <1>1, <2>1 DEF Passed
    <2>3. store[j] \in {"file", "link"}
      BY <1>1, <2>1, <2>2 DEF Standing
    <2> QED
      BY <1>1, <2>1, <2>3 DEF StoreFailureIsReal
  <1> QED
    BY <1>2, <1>3

(* What is said of an outcome is not that the store is lost.               *)
LEMMA ReportKeeps ==
    ASSUME MainInv, Report
    PROVE  MainInv'
  <1>1. stderr = <<>>
    BY DEF MainInv, Silence, Report
  <1>2. stderr' # <<"store">>
    <2>1. CASE verdict = "ok"
      <3> DEFINE Words == {"trace", "steps", "limit warning"}
      <3>1. \A c : /\ Say(c, "trace") \in Seq(Words)
                   /\ Say(c, "steps") \in Seq(Words)
                   /\ Say(c, "limit warning") \in Seq(Words)
        <4> TAKE c
        <4>1. \A m : Say(c, m) \in {<<>>, <<m>>}
          BY Zenon DEF Say
        <4>2. \A m \in Words : <<>> \in Seq(Words) /\ <<m>> \in Seq(Words)
          <5> HIDE DEF Words
          <5> QED
            OBVIOUS
        <4>3. "trace" \in Words /\ "steps" \in Words /\ "limit warning" \in Words
          OBVIOUS
        <4> HIDE DEF Words
        <4> QED
          BY <4>1, <4>2, <4>3
      <3>2. <<>> \in Seq(Words)
        OBVIOUS
      <3>3. \A x, y \in Seq(Words) : x \o y \in Seq(Words)
        BY ConcatProperties
      <3>4. stderr' \in Seq(Words)
        <4> HIDE DEF Words
        <4> QED
          BY <1>1, <2>1, <3>1, <3>2, <3>3 DEF Report
      <3>5. <<"store">> \notin Seq(Words)
        <4>1. <<"store">>[1] \notin Words /\ 1 \in 1..Len(<<"store">>)
          OBVIOUS
        <4> QED
          BY <4>1
      <3> QED
        BY <3>4, <3>5
    <2>2. CASE verdict # "ok"
      <3>1. \E m \in {"error", "error: why"} : stderr' = Append(stderr, m)
        BY <2>2 DEF Report
      <3> QED
        BY <1>1, <3>1, OneMessage, NotTheStore
    <2> QED
      BY <2>1, <2>2
  <1> QED
    BY <1>2 DEF Report, MainInv, Walk, Passed, Silence, StoreFailureIsReal

LEMMA MainStep == MainInv /\ [Next]_vars => MainInv'
  <1> SUFFICES ASSUME MainInv, [Next]_vars PROVE MainInv'
    OBVIOUS
  <1>1. CASE ReadWord
    <2>1. WordRead /\ pc = "options"
      BY <1>1, ReadingStep DEF MainInv
    <2>2. stderr = <<>>
      BY <2>1 DEF MainInv, Silence
    <2>3. pc' # "exited" => stderr' = <<>>
      BY <2>1, <2>2 DEF WordRead
    <2>4. stderr' # <<"store">>
      <3>1. CASE stderr' = stderr
        BY <2>2, <3>1
      <3>2. CASE \E m \in Complaints : stderr' = Append(stderr, m)
        BY <2>2, <3>2, OneMessage, NotTheStore DEF Complaints
      <3> QED
        BY <2>1, <3>1, <3>2 DEF WordRead
    <2>5. pc' \in {"options", "check", "exited"}
      BY <2>1 DEF WordRead
    <2> QED
      BY <2>1, <2>3, <2>4, <2>5 DEF WordRead, MainInv, Walk, Silence, StoreFailureIsReal
  <1>2. CASE RefuseConflict \/ NoMemory \/ StdinFails
    BY <1>2, ExitKeeps DEF RefuseConflict, NoMemory, StdinFails, Exit, Starve
  <1>3. CASE MkdirFails
    BY <1>3, ExitKeeps, LostStoreIsReal DEF MkdirFails, Exit
  <1>8. CASE CopyFails
    BY <1>8, ExitKeeps DEF CopyFails, Starve, StoreFailureIsReal
  <1>4. CASE CheckDone \/ Stat \/ Mkdir \/ MkdirExists \/ StoreDone \/ OtherMakes
    BY <1>4, WalkStep
  <1>5. CASE Evaluate \/ Unreadable \/ Release
    BY <1>5 DEF Evaluate, Unreadable, Release, Goto, MainInv, Walk, Passed, Silence,
                StoreFailureIsReal
  <1>6. CASE Evaluating \/ ClientStep \/ UNCHANGED vars
    BY <1>6 DEF Evaluating, ClientStep, vars, mainVars, MainInv, Walk, Passed, Silence,
                StoreFailureIsReal
  <1>7. CASE Report
    BY <1>7, ReportKeeps
  <1> QED
    BY <1>1, <1>2, <1>3, <1>4, <1>5, <1>6, <1>7, <1>8 DEF Next, Main

-----------------------------------------------------------------------------
LEMMA MainInvariance == Init /\ [][Next]_vars => []MainInv
  BY MainInit, MainStep, PTL

(* main.c:166-323 is a caller of the interface like any other: whatever    *)
(* the command line, its calls are a behaviour of ApiSpec.                 *)
THEOREM MainIsAClient == Spec => ApiSpec
  <1>1. Init => ApiInit
    BY DEF Init
  <1>2. MainInv /\ [Next]_vars => [ApiNext]_apiVars
    BY MainStepsAreCalls DEF MainInv
  <1> QED
    BY <1>1, <1>2, MainInvariance, PTL DEF Spec, ApiSpec

(* ensure_directory_exists (main.c:60-104): when evaluation begins         *)
(* something stands at the path of the libraries, below directories only,  *)
(* also when other processes make directories of it meanwhile.             *)
THEOREM StoreIsReady == Spec => []StoreReady
  <1>1. MainInv => StoreReady
    BY DepthAssumption DEF MainInv, Walk, Passed, StoreReady
  <1> QED
    BY <1>1, MainInvariance, PTL DEF Spec

(* The program gives the library path up only for want of memory for its   *)
(* copy (main.c:68), because the system refuses the prefix it has come to, *)
(* or because something that is no directory stands above that; never      *)
(* because another process made it first (main.c:82, EEXIST).              *)
THEOREM StoreIsLostForAReason == Spec => []StoreFailureIsReal
  <1>1. MainInv => StoreFailureIsReal
    BY DEF MainInv
  <1> QED
    BY <1>1, MainInvariance, PTL DEF Spec
-----------------------------------------------------------------------------
(* What the words and the one call have come to.                           *)
(*                                                                         *)
(* The limit is the default, or what is read in a word behind a -n.        *)
LimitFromWords ==
    \/ settings.limit = DefaultLimit
    \/ \E i \in 1..(Len(Argv) - 1) :
          /\ Argv[i] = "-n"
          /\ IsLimit(Argv[i + 1])
          /\ settings.limit = LimitRead(Argv[i + 1])

Words ==
    /\ start.argv \in Seq(STRING)
    /\ pc = "options" => at \in Nat \ {0}
    /\ LimitFromWords

(* Objects that the program never uses stay empty.                         *)
OthersEmpty == \A o \in Objects \ {FirstObject} : result[o] = EmptyResult

Uncalled   == phase = "idle" /\ calls = 0 /\ blocks = {} /\ \A o \in Objects : result[o] = EmptyResult
Nothing    == stdout = 0 /\ code = 1
Says(s, m) == \E i \in DOMAIN s : s[i] = m
Warned     == Says(stderr, "limit warning")

Before ==
    pc \in {"options", "check", "stat", "mkdir", "newstate"} =>
        Uncalled /\ Nothing

During ==
    pc = "evaluating" =>
        /\ Nothing
        /\ calls = 1 /\ target = FirstObject /\ OthersEmpty
        /\ phase = "idle" => verdict \in {"ok", "failed", "mute", "refused"}

(* Between the report and the label done.                                  *)
Reported ==
    pc = "done" =>
        /\ phase = "idle" /\ calls = 1 /\ OthersEmpty
        /\ \/ Nothing /\ stderr # <<>>
           \/ stdout = 1 /\ code = 0 /\ (result[FirstObject].limited <=> Warned)

Exited ==
    pc = "exited" =>
        /\ blocks = {}
        /\ \/ Nothing /\ stderr # <<>>
           \/ code = 0 /\ stdout = calls /\ calls = 1
           \/ code = 0 /\ stdout = 0 /\ calls = 0 /\ stderr = <<"usage">>

Embedded == pc = "client" => Nothing

Places == {"options", "check", "stat", "mkdir", "newstate", "evaluating", "done", "exited",
           "client"}

Course == pc \in Places /\ Before /\ During /\ Reported /\ Exited /\ Embedded

RunInv == MainInv /\ IInv /\ Words /\ Course

LEMMA RunInit == Init => RunInv
  <1> SUFFICES ASSUME Init PROVE RunInv
    OBVIOUS
  <1>1. Words
    <2>1. start.argv \in Seq(STRING)
      <3>1. Client.argv \in Seq(STRING)
        BY DEF Client
      <3> QED
        BY <3>1, StartsAssumption DEF Init
    <2>2. at = 1 /\ settings.limit = DefaultLimit
      BY DEF Init, DefaultSettings
    <2> QED
      BY <2>1, <2>2 DEF Words, LimitFromWords
  <1>2. Course
    BY DEF Init, ApiInit, Course, Places, Before, During, Reported, Exited, Embedded, Uncalled,
           Nothing
  <1> QED
    BY <1>1, <1>2, MainInit, InitHolds DEF Init, RunInv

(* A word read adds nothing to the limits but the number behind a -n.      *)
LEMMA WordsStep == SettingsOK(settings) /\ Words /\ [Next]_vars => Words'
  <1> SUFFICES ASSUME SettingsOK(settings), Words, [Next]_vars PROVE Words'
    OBVIOUS
  <1>1. CASE ReadWord
    <2>1. pc = "options" /\ start' = start
      BY <1>1, ReadingStep DEF WordRead
    <2>2. at \in Nat \ {0} /\ Len(Argv) \in Nat
      BY <2>1 DEF Words, Argv
    <2>3. CASE ReadLimit /\ HasNext /\ IsLimit(Argv[at + 1])
      <3>1. settings' = [settings EXCEPT !.limit = LimitRead(Argv[at + 1])] /\ at' = at + 2
        BY <2>3 DEF ReadLimit, Take
      <3>2. settings'.limit = LimitRead(Argv[at + 1])
        BY <3>1 DEF SettingsOK, Settings
      <3>3. at \in 1..(Len(Argv) - 1) /\ Argv[at] = "-n"
        BY <2>2, <2>3 DEF HasNext, ReadLimit, Reading, Word
      <3>4. LimitFromWords'
        BY <2>1, <2>3, <3>2, <3>3 DEF LimitFromWords, Argv, IsLimit, LimitRead
      <3> QED
        BY <2>1, <2>2, <3>1, <3>4 DEF Words
    <2>4. CASE ~(ReadLimit /\ HasNext /\ IsLimit(Argv[at + 1]))
      <3>1. settings'.limit = settings.limit
        <4>1. \/ UNCHANGED settings
              \/ \E v : \/ settings' = [settings EXCEPT !.expr = v]
                       \/ settings' = [settings EXCEPT !.file = v]
                       \/ settings' = [settings EXCEPT !.args = v]
                       \/ settings' = [settings EXCEPT !.quiet = v]
                       \/ settings' = [settings EXCEPT !.trace = v]
                       \/ settings' = [settings EXCEPT !.prelude = v]
          BY <1>1, <2>4 DEF ReadWord, ReadSeparator, ReadExpr, ReadLimit, ReadSwitch,
              ReadHelp, ReadUnknown, ReadFree, ReadEnd, Take, Stop, Exit, Ends
        <4> QED
          BY <4>1 DEF SettingsOK, Settings
      <3>2. at' \in {at, at + 1, at + 2}
        BY <1>1 DEF ReadWord, ReadSeparator, ReadExpr, ReadLimit, ReadSwitch,
            ReadHelp, ReadUnknown, ReadFree, ReadEnd, Take, Stop, Exit, Ends
      <3>3. LimitFromWords'
        BY <2>1, <3>1 DEF Words, LimitFromWords, Argv, IsLimit, LimitRead
      <3> QED
        BY <2>1, <2>2, <3>2, <3>3 DEF Words
    <2> QED
      BY <2>3, <2>4
  <1>2. CASE ~ReadWord
    <2>1. UNCHANGED <<start, settings>> /\ (pc' = "options" => UNCHANGED <<pc, at>>)
      BY <1>2 DEF Next, Main, RefuseConflict, NoMemory, CopyFails, MkdirFails, StdinFails, Exit,
          Starve, Ends, CheckDone, Stat, Mkdir, MkdirExists, MkdirDone, StoreDone, OtherMakes, Evaluate, Unreadable,
          Release, Goto, Evaluating, Report, ClientStep, vars, mainVars
    <2> QED
      BY <2>1 DEF Words, LimitFromWords, Argv, IsLimit, LimitRead
  <1> QED
    BY <1>1, <1>2

-----------------------------------------------------------------------------
(* The course of the program, a step at a time.                            *)
LEMMA BeforeKeeps ==
    ASSUME Course, pc \in {"options", "check", "stat", "mkdir", "newstate"},
           pc' \in {"options", "check", "stat", "mkdir", "newstate"},
           UNCHANGED <<stdout, code, apiVars>>
    PROVE  Course'
  BY DEF Course, Places, Before, During, Reported, Exited, Embedded, Uncalled, Nothing, apiVars

(* Giving up before the call: nothing is printed but the reason, or the    *)
(* help.                                                                   *)
GivesUp == Ends(0, "usage") \/ \E m : Ends(1, m)

LEMMA ExitsEarly ==
    ASSUME Course, Silence, pc \in {"options", "check", "stat", "mkdir", "newstate"}, GivesUp
    PROVE  Course'
  <1>0. PICK n, m : Ends(n, m) /\ (n = 1 \/ (n = 0 /\ m = "usage"))
    BY DEF GivesUp
  <1>1. stderr' = <<m>> /\ pc' = "exited" /\ code' = n
    <2>1. stderr = <<>>
      BY <1>0 DEF Silence, Ends
    <2> QED
      BY <1>0, <2>1, OneMessage DEF Ends
  <1>2. stderr' # <<>>
    BY <1>1
  <1>3. Uncalled /\ Nothing /\ UNCHANGED <<stdout, apiVars>>
    BY <1>0 DEF Course, Before, Ends
  <1>4. Exited'
    BY <1>0, <1>1, <1>2, <1>3 DEF Exited, Uncalled, Nothing, apiVars
  <1> QED
    BY <1>1, <1>4 DEF Course, Places, Before, During, Reported, Embedded

LEMMA ReadingCourse ==
    ASSUME Course, Silence, SettingsOK(settings), ReadWord
    PROVE  Course'
  <1>1. pc = "options"
    BY ReadingStep
  <1>2. \/ \E n, s : Take(n, s) \/ Stop(s)
        \/ GivesUp
    BY DEF ReadWord, ReadSeparator, ReadExpr, ReadLimit, ReadSwitch, ReadHelp, ReadUnknown,
           ReadFree, ReadEnd, Exit, GivesUp
  <1>3. CASE \E n, s : Take(n, s) \/ Stop(s)
    BY <1>1, <1>3, BeforeKeeps DEF Take, Stop
  <1>4. CASE GivesUp
    BY <1>1, <1>4, ExitsEarly
  <1> QED
    BY <1>2, <1>3, <1>4

(* The call begins, or is refused.                                         *)
LEMMA CallBegins ==
    ASSUME Course, IInv, Evaluate \/ Unreadable
    PROVE  Course'
  <1>1. Uncalled /\ Nothing /\ result \in [Objects -> Results]
    BY DEF Evaluate, Unreadable, Course, Before, IInv, ApiTypeOK
  <1>2. /\ calls' = 1 /\ target' = FirstObject
        /\ pc' = "evaluating" /\ UNCHANGED <<stdout, code>>
        /\ phase' = "idle" => verdict' = "refused"
    BY <1>1 DEF Evaluate, Unreadable, Begin, Refuse, Goto, Uncalled
  <1>3. OthersEmpty'
    BY <1>1 DEF Evaluate, Unreadable, Begin, Refuse, Uncalled, OthersEmpty
  <1> QED
    BY <1>1, <1>2, <1>3 DEF Course, Places, Before, During, Reported, Exited, Embedded, Nothing

LEMMA CallGoesOn ==
    ASSUME Course, IInv, Evaluating
    PROVE  Course'
  <1>1. /\ Nothing /\ calls = 1 /\ target = FirstObject /\ OthersEmpty
        /\ pc = "evaluating" /\ result \in [Objects -> Results]
    BY DEF Evaluating, Course, During, IInv, ApiTypeOK
  <1>2. /\ pc' = "evaluating" /\ UNCHANGED <<stdout, code>>
        /\ UNCHANGED <<calls, target>>
        /\ phase' = "idle" => verdict' \in {"ok", "failed", "mute"}
    BY DEF Evaluating, mainVars, EvalStep, Import, Merge, Scan, Parse, Lower, Reduce, Render,
           FailWithMessage, FailMutely, Fail, Goes, Kept
  <1>3. \A o \in Objects \ {target} : result'[o] = result[o]
    <2>1. CASE Reduce
      BY <1>1, <2>1 DEF Reduce
    <2>2. CASE Render
      BY <1>1, <2>2 DEF Render
    <2>3. CASE ~Reduce /\ ~Render
      BY <2>3 DEF Evaluating, EvalStep, Import, Merge, Scan, Parse, Lower,
         FailWithMessage, FailMutely, Fail
    <2> QED
      BY <2>1, <2>2, <2>3
  <1> QED
    BY <1>1, <1>2, <1>3
    DEF Course, Places, Before, During, Reported, Exited, Embedded, Nothing, OthersEmpty

(* What is printed on standard error of a call that went well.             *)
LEMMA SayIn ==
    ASSUME NEW S, NEW c, NEW m \in S
    PROVE  Say(c, m) \in Seq(S)
  <1>1. Say(c, m) = <<>> \/ Say(c, m) = <<m>>
    BY Zenon DEF Say
  <1>2. <<>> \in Seq(S) /\ <<m>> \in Seq(S)
    OBVIOUS
  <1> QED
    BY <1>1, <1>2

LEMMA SaidLast ==
    ASSUME NEW S, NEW head \in Seq(S), NEW m, m \notin S, NEW c \in BOOLEAN
    PROVE  c <=> Says(head \o Say(c, m), m)
  <1>1. CASE c
    <2>1. Say(c, m) = <<m>>
      BY <1>1 DEF Say
    <2>2. /\ Len(head) + 1 \in DOMAIN (head \o <<m>>)
          /\ (head \o <<m>>)[Len(head) + 1] = m
      OBVIOUS
    <2> QED
      BY <1>1, <2>1, <2>2 DEF Says
  <1>2. CASE ~c
    <2>1. Say(c, m) = <<>>
      BY <1>2 DEF Say
    <2>2. head \o <<>> = head
      OBVIOUS
    <2>3. \A i \in DOMAIN head : head[i] # m
      OBVIOUS
    <2> QED
      BY <1>2, <2>1, <2>2, <2>3 DEF Says
  <1> QED
    BY <1>1, <1>2

LEMMA WarningIsSaid ==
    ASSUME NEW trace, NEW steps, NEW limited \in BOOLEAN, NEW said,
           said = <<>> \o Say(trace, "trace") \o Say(steps, "steps") \o Say(limited, "limit warning")
    PROVE  limited <=> Says(said, "limit warning")
  <1> DEFINE S == {"trace", "steps"}
             head == <<>> \o Say(trace, "trace") \o Say(steps, "steps")
  <1>1. "trace" \in S /\ "steps" \in S /\ "limit warning" \notin S
    OBVIOUS
  <1>2. \A x, y \in Seq(S) : x \o y \in Seq(S)
    BY ConcatProperties
  <1>3. head \in Seq(S)
    <2> HIDE DEF S
    <2>1. /\ Say(trace, "trace") \in Seq(S)
          /\ Say(steps, "steps") \in Seq(S)
      BY <1>1, SayIn, Zenon
    <2>2. <<>> \in Seq(S)
      BY EmptySeq, Zenon
    <2> QED
      BY <1>2, <2>1, <2>2
  <1>4. said = head \o Say(limited, "limit warning")
    OBVIOUS
  <1> HIDE DEF S, head
  <1> QED
    <2>1. limited <=> Says(head \o Say(limited, "limit warning"), "limit warning")
      BY <1>1, <1>3, SaidLast, Zenon
    <2> QED
      BY <1>4, <2>1, Zenon

LEMMA ReportCourse ==
    ASSUME Course, IInv, Silence, Report
    PROVE  Course'
  <1>1. /\ Nothing /\ calls = 1 /\ target = FirstObject /\ OthersEmpty
        /\ pc = "evaluating" /\ result \in [Objects -> Results] /\ FirstObject \in Objects
        /\ stderr = <<>> /\ phase = "idle"
    BY ObjectsAssumption DEF Report, Course, During, IInv, ApiTypeOK, Silence
  <1>2. pc' = "done" /\ UNCHANGED <<phase, calls, result>>
    BY DEF Report, apiVars
  <1>3. CASE verdict = "ok"
    <2>1. stdout' = 1 /\ code' = 0
      BY <1>1, <1>3 DEF Report, IInv, ResultIsOfLastCall
    <2>2. result[FirstObject].limited \in BOOLEAN
      BY <1>1 DEF Results
    <2>3. stderr' = <<>> \o Say(result[FirstObject].trace # 0, "trace")
                         \o Say(~settings.quiet, "steps")
                         \o Say(result[FirstObject].limited, "limit warning")
      BY <1>1, <1>3 DEF Report
    <2>4. result[FirstObject].limited <=> Says(stderr', "limit warning")
      <3> DEFINE trace == result[FirstObject].trace # 0
                 steps == ~settings.quiet
                 limited == result[FirstObject].limited
                 said == stderr'
      <3>1. limited \in BOOLEAN
        BY <2>2
      <3>2. said = <<>> \o Say(trace, "trace") \o Say(steps, "steps") \o Say(limited, "limit warning")
        BY <2>3
      <3> HIDE DEF trace, steps, limited, said
      <3>3. limited <=> Says(said, "limit warning")
        BY <3>1, <3>2, WarningIsSaid, Zenon
      <3> QED
        BY <3>3 DEF limited, said
    <2>5. result'[FirstObject].limited <=> Warned'
      BY <1>2, <2>4 DEF Warned
    <2> QED
      BY <1>1, <1>2, <2>1, <2>5
      DEF Course, Places, Before, During, Reported, Exited, Embedded, OthersEmpty
  <1>4. CASE verdict # "ok"
    <2>1. UNCHANGED <<stdout, code>> /\ \E m : stderr' = Append(stderr, m)
      BY <1>4 DEF Report
    <2>2. stderr' # <<>>
      BY <1>1, <2>1
    <2> QED
      BY <1>1, <1>2, <2>1, <2>2
      DEF Course, Places, Before, During, Reported, Exited, Embedded, OthersEmpty, Nothing
  <1> QED
    BY <1>3, <1>4

(* The label done leaves no block behind.                                  *)
LEMMA ReleaseCourse ==
    ASSUME Course, IInv, Release
    PROVE  Course'
  <1>1. /\ phase = "idle" /\ calls = 1 /\ OthersEmpty
        /\ held = 0 /\ BlocksHaveOneOwner
    BY DEF Release, Course, Reported, IInv, HeldTrace
  <1>2. \A o \in Objects \ {FirstObject} : Owned(result[o]) = {}
    BY <1>1 DEF OthersEmpty, EmptyResult, Owned, Outputs, Traces
  <1>3. Traces(held) = {}
    BY <1>1 DEF Traces
  <1>4. blocks \subseteq Owned(result[FirstObject])
    BY <1>1, <1>2, <1>3 DEF BlocksHaveOneOwner
  <1>5. blocks' = {}
    BY <1>4 DEF Release, FreeResult
  <1>6. pc' = "exited" /\ UNCHANGED <<stdout, code, stderr, calls>>
    BY DEF Release, FreeResult, Goto
  <1>7. Exited'
    BY <1>1, <1>5, <1>6 DEF Release, Course, Reported, Exited, Nothing
  <1> QED
    BY <1>6, <1>7 DEF Course, Places, Before, During, Reported, Embedded

LEMMA CourseStep == RunInv /\ [Next]_vars => Course'
  <1> SUFFICES ASSUME RunInv, [Next]_vars PROVE Course'
    OBVIOUS
  <1> USE DEF RunInv
  <1>0. Silence /\ SettingsOK(settings)
    BY DEF MainInv
  <1>1. CASE ReadWord
    BY <1>0, <1>1, ReadingCourse
  <1>2. CASE RefuseConflict \/ NoMemory \/ CopyFails \/ MkdirFails \/ StdinFails
    <2>1. GivesUp
      BY <1>2 DEF RefuseConflict, NoMemory, CopyFails, MkdirFails, StdinFails, Exit, Starve,
             GivesUp
    <2>2. pc \in {"options", "check", "stat", "mkdir", "newstate"}
      BY <1>2 DEF RefuseConflict, NoMemory, CopyFails, MkdirFails, StdinFails
    <2> QED
      BY <1>0, <2>1, <2>2, ExitsEarly
  <1>3. CASE CheckDone \/ Stat \/ Mkdir \/ MkdirExists \/ StoreDone \/ OtherMakes
    BY <1>3, BeforeKeeps DEF CheckDone, Stat, Mkdir, MkdirExists, MkdirDone, StoreDone, OtherMakes
  <1>4. CASE Evaluate \/ Unreadable
    BY <1>4, CallBegins
  <1>5. CASE Evaluating
    BY <1>5, CallGoesOn
  <1>6. CASE Report
    BY <1>0, <1>6, ReportCourse
  <1>7. CASE Release
    BY <1>7, ReleaseCourse
  <1>8. CASE ClientStep
    BY <1>8
    DEF ClientStep, mainVars, Course, Places, Before, During, Reported, Exited, Embedded, Nothing
  <1>9. CASE UNCHANGED vars
    BY <1>9
    DEF vars, mainVars, apiVars, Course, Places, Before, During, Reported, Exited, Embedded,
        Nothing, Uncalled, OthersEmpty, Warned, Says
  <1> QED
    BY <1>1, <1>2, <1>3, <1>4, <1>5, <1>6, <1>7, <1>8, <1>9 DEF Next, Main

LEMMA RunStep == RunInv /\ [Next]_vars => RunInv'
  <1> SUFFICES ASSUME RunInv, [Next]_vars PROVE RunInv'
    OBVIOUS
  <1>1. MainInv' /\ Course'
    BY MainStep, CourseStep DEF RunInv
  <1>2. SettingsOK(settings) /\ Words /\ IInv
    BY DEF RunInv, MainInv
  <1>3. Words' /\ IInv'
    BY <1>2, WordsStep, MainStepsAreCalls, StepHolds
  <1> QED
    BY <1>1, <1>3 DEF RunInv

LEMMA RunInvariance == Spec => []RunInv
  BY RunInit, RunStep, PTL DEF Spec

(* parse_step_limit (main.c:37): the limit in force is the default or the  *)
(* number given with some -n, whatever the words and the width of an       *)
(* unsigned long long; only below zero can it be another.                  *)
THEOREM LimitIsAsGiven == Spec => []LimitWrapsOnlyBelowZero
  <1>1. RunInv => LimitWrapsOnlyBelowZero
    <2> SUFFICES ASSUME RunInv PROVE LimitWrapsOnlyBelowZero
      OBVIOUS
    <2>1. CASE settings.limit = DefaultLimit
      BY <2>1 DEF LimitWrapsOnlyBelowZero
    <2>2. CASE settings.limit # DefaultLimit
      <3>1. PICK i \in 1..(Len(Argv) - 1) :
                /\ Argv[i] = "-n" /\ IsLimit(Argv[i + 1])
                /\ settings.limit = LimitRead(Argv[i + 1])
        BY <2>2 DEF RunInv, Words, LimitFromWords
      <3> DEFINE w == Argv[i + 1]
      <3>2. /\ w \in DOMAIN Numbers /\ Numbers[w].magnitude \in Nat /\ WordSize \in Nat
            /\ Numbers[w].magnitude < WordSize
        BY <3>1, NumbersAssumption DEF IsLimit
      <3>3. ~Numbers[w].negative => LimitRead(w) = Numbers[w].magnitude
        BY <3>2 DEF LimitRead
      <3> QED
        BY <3>1, <3>2, <3>3 DEF LimitWrapsOnlyBelowZero
    <2> QED
      BY <2>1, <2>2
  <1> QED
    BY <1>1, RunInvariance, PTL

(* main.c:166-323: the exit code and what was printed tell what came of    *)
(* the one call, and nothing of the result is left allocated, whichever    *)
(* way out the process took.                                               *)
THEOREM ExitIsTruthful == Spec => []ExitTellsOutcome
  <1>1. RunInv => ExitTellsOutcome
    <2> SUFFICES ASSUME Course PROVE ExitTellsOutcome
      BY DEF RunInv
    <2> USE DEF Course, Places, Before, During, Reported, Exited, Embedded, Nothing
    <2>1. stdout # 0 => code = 0 /\ stdout = calls
      OBVIOUS
    <2>2. pc = "done" /\ stdout # 0 => (result[FirstObject].limited <=> Warned)
      OBVIOUS
    <2>3. pc = "exited" =>
              /\ code = 0 => stdout # 0 \/ (calls = 0 /\ stderr = <<"usage">>)
              /\ code = 1 => stdout = 0 /\ stderr # <<>>
              /\ blocks = {}
      OBVIOUS
    <2> QED
      BY <2>1, <2>2, <2>3, Zenon DEF ExitTellsOutcome, Warned, Says
  <1> QED
    BY <1>1, RunInvariance, PTL

-----------------------------------------------------------------------------
(* A command line in the form of usage: at every turn of the loop a word   *)
(* that begins an option, or the first behind them, and the settings are   *)
(* the meant ones as far as their options have been passed.                *)
Passing(argv, heads, k, w) == \E i \in heads : i < k /\ argv[i] = w
PassedFile(argv, heads, k) == \E i \in heads : i < k /\ IsFree(argv[i])

IsPartly(s, m, argv, heads, k) ==
    /\ s.expr = (IF Passing(argv, heads, k, "-e") THEN m.expr ELSE Unset)
    /\ s.file = (IF PassedFile(argv, heads, k) THEN m.file ELSE Unset)
    /\ s.limit = (IF Passing(argv, heads, k, "-n") THEN m.limit ELSE DefaultLimit)
    /\ s.quiet = Passing(argv, heads, k, "-q")
    /\ s.trace = Passing(argv, heads, k, "-t")
    /\ s.prelude = ~Passing(argv, heads, k, "--no-prelude")
    /\ s.args = <<>>

IsSetting(m) ==
    /\ m = [f \in Settings |-> m[f]]
    /\ m.expr = Unset \/ m.file = Unset

Layout(argv, m, heads, last) ==
    /\ argv \in Seq(STRING)
    /\ last \in 0..Len(argv)
    /\ heads \in SUBSET (1..last)
    /\ MeansArguments(argv, last, m)
    /\ AreOptions(argv, heads, last)
    /\ MeansOptions(argv, heads, m)

MeantSoFar(m, heads, last) ==
    IF pc = "options"
    THEN at \in heads \cup {last + 1} /\ IsPartly(settings, m, Argv, heads, at)
    ELSE settings = m

UsageInv ==
    \A m \in start.meant :
        /\ IsSetting(m)
        /\ \E last \in 0..Len(Argv) : \E heads \in SUBSET (1..last) :
              Layout(Argv, m, heads, last) /\ MeantSoFar(m, heads, last)

LEMMA SettingNames == DOMAIN DefaultSettings = Settings
  BY DEF DefaultSettings, Settings

LEMMA SameSettings ==
    ASSUME NEW s, NEW t, s = [f \in Settings |-> s[f]], t = [f \in Settings |-> t[f]],
           s.expr = t.expr, s.file = t.file, s.limit = t.limit, s.quiet = t.quiet,
           s.trace = t.trace, s.prelude = t.prelude, s.args = t.args
    PROVE  s = t
  <1>1. \A f \in Settings : s[f] = t[f]
    BY DEF Settings
  <1>2. [f \in Settings |-> s[f]] = [f \in Settings |-> t[f]]
    BY <1>1
  <1> QED
    BY <1>2, Zenon

LEMMA UsageInit == Init => UsageInv
  <1> SUFFICES ASSUME Init, NEW m \in start.meant
               PROVE  /\ IsSetting(m)
                      /\ \E last \in 0..Len(Argv) : \E heads \in SUBSET (1..last) :
                            Layout(Argv, m, heads, last) /\ MeantSoFar(m, heads, last)
    BY DEF UsageInv
  <1>1. start \in Starts /\ pc = "options" /\ at = 1 /\ settings = DefaultSettings
    <2>1. Client.meant = {}
      BY DEF Client
    <2> QED
      BY <2>1 DEF Init
  <1>2. IsUsage(Argv, m) /\ Argv \in Seq(STRING)
    BY <1>1, MeantAssumption, StartsAssumption DEF Argv
  <1>3. IsSetting(m)
    BY <1>2, SettingNames DEF IsUsage, IsSetting
  <1>4. PICK last \in 0..Len(Argv) : \E heads \in SUBSET (1..last) :
            MeansArguments(Argv, last, m) /\ AreOptions(Argv, heads, last)
                /\ MeansOptions(Argv, heads, m)
    BY <1>2 DEF IsUsage
  <1>5. PICK heads \in SUBSET (1..last) :
            MeansArguments(Argv, last, m) /\ AreOptions(Argv, heads, last)
                /\ MeansOptions(Argv, heads, m)
    BY <1>4
  <1>6. 1 \in heads \cup {last + 1}
    <2>1. CASE last = 0
      BY <2>1
    <2>2. CASE last # 0
      <3>1. 1 \in 1..last
        BY <1>2, <2>2
      <3>2. ~(1 > 1)
        OBVIOUS
      <3> QED
        BY <1>5, <3>1, <3>2, Zenon DEF AreOptions
    <2> QED
      BY <2>1, <2>2
  <1>7. IsPartly(DefaultSettings, m, Argv, heads, 1)
    <2>1. \A i \in heads : ~(i < 1)
      BY <1>2
    <2>2. \A w : Passing(Argv, heads, 1, w) = FALSE
      BY <2>1, Zenon DEF Passing
    <2>3. PassedFile(Argv, heads, 1) = FALSE
      BY <2>1, Zenon DEF PassedFile
    <2> QED
      BY <2>2, <2>3 DEF IsPartly, DefaultSettings
  <1> QED
    BY <1>1, <1>2, <1>3, <1>5, <1>6, <1>7, Zenon DEF Layout, MeantSoFar

-----------------------------------------------------------------------------
(* From one option to the next.                                            *)
LEMMA NextHead ==
    ASSUME NEW argv, NEW m, NEW heads, NEW last, Layout(argv, m, heads, last), NEW k \in heads
    PROVE  /\ k \in 1..last /\ k <= Len(argv) /\ last \in Nat /\ Len(argv) \in Nat
           /\ argv[k] \in Valued =>
                 k + 1 <= Len(argv) /\ k + 2 \in heads \cup {last + 1} /\ k + 1 \notin heads
           /\ argv[k] \notin Valued => k + 1 \in heads \cup {last + 1}
  <1>1. k \in 1..last /\ k <= Len(argv) /\ last \in Nat /\ Len(argv) \in Nat /\ last <= Len(argv)
    BY DEF Layout
  <1>2. \A i \in 1..last :
            i \in heads <=> ~(i > 1 /\ i - 1 \in heads /\ argv[i - 1] \in Valued)
    BY DEF Layout, AreOptions
  <1>3. (k + 1) - 1 = k /\ k + 1 > 1 /\ (k + 2) - 1 = k + 1
    BY <1>1
  <1>4. CASE argv[k] \in Valued
    <2>1. k < last
      <3>1. "-e" \notin Switches /\ "-n" \notin Switches /\ "-e" \in OptionLike /\ "-n" \in OptionLike
        BY OptionLikeAssumption DEF Known, Switches
      <3> QED
        BY <1>4, <3>1 DEF Layout, AreOptions, Valued, IsFree
    <2>2. k + 1 \in 1..last
      BY <1>1, <2>1
    <2>3. k + 1 \notin heads
      BY <1>2, <1>3, <1>4, <2>2
    <2>4. k + 2 \in heads \cup {last + 1}
      <3>1. CASE k + 2 \in 1..last
        BY <1>2, <1>3, <2>3, <3>1
      <3>2. CASE k + 2 \notin 1..last
        BY <1>1, <2>2, <3>2
      <3> QED
        BY <3>1, <3>2
    <2> QED
      BY <1>1, <1>4, <2>2, <2>3, <2>4
  <1>5. CASE argv[k] \notin Valued
    <2>1. CASE k + 1 \in 1..last
      BY <1>1, <1>2, <1>3, <1>5, <2>1
    <2>2. CASE k + 1 \notin 1..last
      BY <1>1, <1>5, <2>2
    <2> QED
      BY <1>1, <1>5, <2>1, <2>2
  <1> QED
    BY <1>1, <1>4, <1>5

(* What has been passed when the loop goes on from k to n.                 *)
LEMMA PassingMore ==
    ASSUME NEW argv, NEW heads \in SUBSET Nat, NEW k \in heads, NEW n \in Nat,
           n = k + 1 \/ (n = k + 2 /\ k + 1 \notin heads)
    PROVE  /\ \A w : Passing(argv, heads, n, w) <=> Passing(argv, heads, k, w) \/ argv[k] = w
           /\ PassedFile(argv, heads, n) <=> PassedFile(argv, heads, k) \/ IsFree(argv[k])
  <1>1. \A i \in heads : i < n <=> i < k \/ i = k
    OBVIOUS
  <1> QED
    BY <1>1, Zenon DEF Passing, PassedFile

(* The one branch of the loop for each kind of word.                       *)
LEMMA OneBranch ==
    ASSUME ReadWord, at <= Len(Argv), Len(Argv) \in Nat, at \in Nat
    PROVE  /\ Word = "-e" => ReadExpr
           /\ Word = "-n" => ReadLimit
           /\ Word \in Switches => ReadSwitch
           /\ Word = "--" => ReadSeparator
           /\ IsFree(Word) => ReadFree
  <1>1. \A w \in Known : ~IsFree(w)
    BY OptionLikeAssumption DEF IsFree
  <1>2. \/ ReadSeparator /\ Word = "--"
        \/ ReadExpr /\ Word = "-e"
        \/ ReadLimit /\ Word = "-n"
        \/ ReadSwitch /\ Word \in Switches
        \/ ReadHelp /\ Word \in {"-h", "--help"}
        \/ ReadUnknown /\ Word \notin Known /\ ~IsFree(Word)
        \/ ReadFree /\ IsFree(Word)
        \/ ReadEnd /\ at > Len(Argv)
    <2>1. ReadSeparator => Word = "--"
      BY DEF ReadSeparator, Reading
    <2>2. ReadExpr => Word = "-e"
      BY DEF ReadExpr, Reading
    <2>3. ReadLimit => Word = "-n"
      BY Zenon DEF ReadLimit, Reading
    <2>4. ReadSwitch => Word \in Switches
      BY DEF ReadSwitch, Reading, Switches
    <2>5. ReadHelp => Word \in {"-h", "--help"}
      BY DEF ReadHelp, Reading
    <2>6. ReadUnknown => Word \notin Known /\ ~IsFree(Word)
      <3>1. ReadUnknown => \E w \in OptionLike \ Known : Word = w
        BY Zenon DEF ReadUnknown, Reading
      <3> QED
        BY <3>1, Zenon DEF IsFree
    <2>7. ReadFree => IsFree(Word)
      BY DEF ReadFree, IsFree
    <2>8. ReadEnd => at > Len(Argv)
      BY DEF ReadEnd
    <2> QED
      BY <2>1, <2>2, <2>3, <2>4, <2>5, <2>6, <2>7, <2>8, Zenon DEF ReadWord
  <1>3. ~(at > Len(Argv))
    OBVIOUS
  <1> QED
    BY <1>1, <1>2, <1>3 DEF Known, Switches

(* What the option at the next word makes of the settings.                 *)
Onward(m) ==
    [settings EXCEPT !.expr = IF Word = "-e" THEN m.expr ELSE @,
                     !.limit = IF Word = "-n" THEN m.limit ELSE @,
                     !.quiet = @ \/ Word = "-q",
                     !.trace = @ \/ Word = "-t",
                     !.prelude = @ /\ Word # "--no-prelude",
                     !.file = IF IsFree(Word) THEN m.file ELSE @]

LEMMA OnwardFields ==
    ASSUME NEW m, SettingsOK(settings)
    PROVE  /\ Onward(m) = [f \in Settings |-> Onward(m)[f]]
           /\ Onward(m).expr = (IF Word = "-e" THEN m.expr ELSE settings.expr)
           /\ Onward(m).limit = (IF Word = "-n" THEN m.limit ELSE settings.limit)
           /\ Onward(m).quiet = (settings.quiet \/ Word = "-q")
           /\ Onward(m).trace = (settings.trace \/ Word = "-t")
           /\ Onward(m).prelude = (settings.prelude /\ Word # "--no-prelude")
           /\ Onward(m).file = (IF IsFree(Word) THEN m.file ELSE settings.file)
           /\ Onward(m).args = settings.args
  BY DEF Onward, SettingsOK, Settings

(* A word that begins an option is taken as that option.                   *)
LEMMA OptionTaken ==
    ASSUME NEW m, NEW heads, NEW last, Layout(Argv, m, heads, last), IsSetting(m),
           SettingsOK(settings), at \in heads, IsPartly(settings, m, Argv, heads, at), ReadWord
    PROVE  \E n \in {1, 2} : (n = 1 <=> Word \notin Valued) /\ Take(n, Onward(m))
  <1> DEFINE next == Onward(m)
  <1>1. /\ at \in 1..last /\ at <= Len(Argv) /\ last \in Nat /\ Len(Argv) \in Nat
        /\ Word \in Valued => at + 1 <= Len(Argv)
    BY NextHead DEF Word
  <1>2. /\ settings = [f \in Settings |-> settings[f]]
        /\ settings.quiet \in BOOLEAN /\ settings.trace \in BOOLEAN /\ settings.prelude \in BOOLEAN
    BY DEF SettingsOK, IsPartly, Passing
  <1>3. /\ next = [f \in Settings |-> next[f]]
        /\ next.expr = (IF Word = "-e" THEN m.expr ELSE settings.expr)
        /\ next.limit = (IF Word = "-n" THEN m.limit ELSE settings.limit)
        /\ next.quiet = (settings.quiet \/ Word = "-q")
        /\ next.trace = (settings.trace \/ Word = "-t")
        /\ next.prelude = (settings.prelude /\ Word # "--no-prelude")
        /\ next.file = (IF IsFree(Word) THEN m.file ELSE settings.file)
        /\ next.args = settings.args
    BY OnwardFields
  <1> HIDE DEF next
  <1>4. \A w \in Known : ~IsFree(w)
    BY OptionLikeAssumption DEF IsFree
  <1>5. Word \in Valued \/ Word \in Switches \/ IsFree(Word)
    BY DEF Layout, AreOptions, Word
  <1>6. CASE Word = "-e"
    <2>1. HasNext /\ ~IsFree(Word)
      BY <1>1, <1>4, <1>6 DEF HasNext, Valued, Known
    <2>2. m.expr = Argv[at + 1]
      BY <1>6 DEF Layout, MeansOptions, Word
    <2>3. next = [settings EXCEPT !.expr = Argv[at + 1]]
      <3> DEFINE t == [settings EXCEPT !.expr = Argv[at + 1]]
      <3>1. /\ t = [f \in Settings |-> t[f]]
            /\ t.expr = m.expr /\ t.limit = settings.limit /\ t.quiet = settings.quiet
            /\ t.trace = settings.trace /\ t.prelude = settings.prelude
            /\ t.file = settings.file /\ t.args = settings.args
        BY <1>2, <2>2 DEF Settings
      <3>2. /\ next.expr = m.expr /\ next.limit = settings.limit /\ next.quiet = settings.quiet
            /\ next.trace = settings.trace /\ next.prelude = settings.prelude
            /\ next.file = settings.file /\ next.args = settings.args
        BY <1>2, <1>3, <1>6, <2>1
      <3> HIDE DEF t
      <3>3. next = t
        BY <1>3, <3>1, <3>2, SameSettings
      <3> QED
        BY <3>3 DEF t
    <2>4. Take(2, next)
      BY <1>1, <1>6, <2>1, <2>3, OneBranch DEF ReadExpr
    <2> QED
      BY <1>6, <2>4 DEF next, Valued
  <1>7. CASE Word = "-n"
    <2>1. HasNext /\ ~IsFree(Word)
      BY <1>1, <1>4, <1>7 DEF HasNext, Valued, Known
    <2>2. IsLimit(Argv[at + 1]) /\ m.limit = LimitRead(Argv[at + 1])
      BY <1>7 DEF Layout, MeansOptions, Word
    <2>3. next = [settings EXCEPT !.limit = LimitRead(Argv[at + 1])]
      <3> DEFINE t == [settings EXCEPT !.limit = LimitRead(Argv[at + 1])]
      <3>1. /\ t = [f \in Settings |-> t[f]]
            /\ t.expr = settings.expr /\ t.limit = m.limit /\ t.quiet = settings.quiet
            /\ t.trace = settings.trace /\ t.prelude = settings.prelude
            /\ t.file = settings.file /\ t.args = settings.args
        BY <1>2, <2>2 DEF Settings
      <3>2. /\ next.expr = settings.expr /\ next.limit = m.limit /\ next.quiet = settings.quiet
            /\ next.trace = settings.trace /\ next.prelude = settings.prelude
            /\ next.file = settings.file /\ next.args = settings.args
        BY <1>2, <1>3, <1>7, <2>1
      <3> HIDE DEF t
      <3>3. next = t
        BY <1>3, <3>1, <3>2, SameSettings
      <3> QED
        BY <3>3 DEF t
    <2>4. Take(2, next)
      BY <1>1, <1>7, <2>1, <2>2, <2>3, OneBranch DEF ReadLimit
    <2> QED
      BY <1>7, <2>4 DEF next, Valued
  <1>8. CASE Word \in Switches
    <2>1. ~IsFree(Word) /\ Word # "-e" /\ Word # "-n" /\ Word \notin Valued
      BY <1>4, <1>8 DEF Switches, Known, Valued
    <2> DEFINE q == [settings EXCEPT !.quiet = TRUE]
               t == [settings EXCEPT !.trace = TRUE]
               p == [settings EXCEPT !.prelude = FALSE]
    <2>2. /\ Word = "-q" => Take(1, q)
          /\ Word = "-t" => Take(1, t)
          /\ Word = "--no-prelude" => Take(1, p)
      BY <1>1, <1>8, OneBranch DEF ReadSwitch, Reading, Switches
    <2>3. /\ q = [f \in Settings |-> q[f]] /\ t = [f \in Settings |-> t[f]]
          /\ p = [f \in Settings |-> p[f]]
      BY <1>2 DEF Settings
    <2>4. CASE Word = "-q"
      <3>1. /\ q.expr = settings.expr /\ q.limit = settings.limit /\ q.quiet = TRUE
            /\ q.trace = settings.trace /\ q.prelude = settings.prelude
            /\ q.file = settings.file /\ q.args = settings.args
        BY <1>2 DEF Settings
      <3>2. /\ next.expr = settings.expr /\ next.limit = settings.limit /\ next.quiet = TRUE
            /\ next.trace = settings.trace /\ next.prelude = settings.prelude
            /\ next.file = settings.file /\ next.args = settings.args
        BY <1>2, <1>3, <2>1, <2>4
      <3> HIDE DEF q, t, p
      <3>0. /\ next.expr = q.expr /\ next.limit = q.limit /\ next.quiet = q.quiet
            /\ next.trace = q.trace /\ next.prelude = q.prelude
            /\ next.file = q.file /\ next.args = q.args
        BY <3>1, <3>2, Zenon
      <3>3. next = q
        BY <1>3, <2>3, <3>0, SameSettings, Zenon
      <3>4. Take(1, next)
        BY <2>2, <2>4, <3>3
      <3> QED
        BY <2>1, <3>4 DEF next
    <2>5. CASE Word = "-t"
      <3>1. /\ t.expr = settings.expr /\ t.limit = settings.limit /\ t.quiet = settings.quiet
            /\ t.trace = TRUE /\ t.prelude = settings.prelude
            /\ t.file = settings.file /\ t.args = settings.args
        BY <1>2 DEF Settings
      <3>2. /\ next.expr = settings.expr /\ next.limit = settings.limit
            /\ next.quiet = settings.quiet /\ next.trace = TRUE /\ next.prelude = settings.prelude
            /\ next.file = settings.file /\ next.args = settings.args
        BY <1>2, <1>3, <2>1, <2>5
      <3> HIDE DEF q, t, p
      <3>0. /\ next.expr = t.expr /\ next.limit = t.limit /\ next.quiet = t.quiet
            /\ next.trace = t.trace /\ next.prelude = t.prelude
            /\ next.file = t.file /\ next.args = t.args
        BY <3>1, <3>2, Zenon
      <3>3. next = t
        BY <1>3, <2>3, <3>0, SameSettings, Zenon
      <3>4. Take(1, next)
        BY <2>2, <2>5, <3>3
      <3> QED
        BY <2>1, <3>4 DEF next
    <2>6. CASE Word = "--no-prelude"
      <3>1. /\ p.expr = settings.expr /\ p.limit = settings.limit /\ p.quiet = settings.quiet
            /\ p.trace = settings.trace /\ p.prelude = FALSE
            /\ p.file = settings.file /\ p.args = settings.args
        BY <1>2 DEF Settings
      <3>2. /\ next.expr = settings.expr /\ next.limit = settings.limit
            /\ next.quiet = settings.quiet /\ next.trace = settings.trace /\ next.prelude = FALSE
            /\ next.file = settings.file /\ next.args = settings.args
        BY <1>2, <1>3, <2>1, <2>6
      <3> HIDE DEF q, t, p
      <3>0. /\ next.expr = p.expr /\ next.limit = p.limit /\ next.quiet = p.quiet
            /\ next.trace = p.trace /\ next.prelude = p.prelude
            /\ next.file = p.file /\ next.args = p.args
        BY <3>1, <3>2, Zenon
      <3>3. next = p
        BY <1>3, <2>3, <3>0, SameSettings, Zenon
      <3>4. Take(1, next)
        BY <2>2, <2>6, <3>3
      <3> QED
        BY <2>1, <3>4 DEF next
    <2> QED
      BY <1>8, <2>4, <2>5, <2>6 DEF Switches
  <1>9. CASE IsFree(Word)
    <2>1. /\ Word \notin Known /\ Word \notin Valued
          /\ Word # "-e" /\ Word # "-n" /\ Word # "-q" /\ Word # "-t" /\ Word # "--no-prelude"
      BY <1>4, <1>9 DEF Known, Valued
    <2>2. m.file = Word /\ m.file # Unset /\ m.expr = Unset
      BY <1>9 DEF Layout, MeansOptions, Word, IsSetting
    <2>3. settings.expr = Unset
      BY <2>2 DEF IsPartly
    <2>4. settings.file = Unset
      <3>1. ~PassedFile(Argv, heads, at)
        BY <1>1, <1>9 DEF PassedFile, Layout, AreOptions, Word
      <3> QED
        BY <3>1 DEF IsPartly
    <2> DEFINE t == [settings EXCEPT !.file = Word]
    <2>5. Take(1, t)
      BY <1>1, <1>9, <2>3, <2>4, OneBranch DEF ReadFree
    <2>6. /\ t = [f \in Settings |-> t[f]]
          /\ t.expr = settings.expr /\ t.limit = settings.limit /\ t.quiet = settings.quiet
          /\ t.trace = settings.trace /\ t.prelude = settings.prelude
          /\ t.file = m.file /\ t.args = settings.args
      BY <1>2, <2>2 DEF Settings
    <2>7. /\ next.expr = settings.expr /\ next.limit = settings.limit
          /\ next.quiet = settings.quiet /\ next.trace = settings.trace
          /\ next.prelude = settings.prelude
          /\ next.file = m.file /\ next.args = settings.args
      BY <1>2, <1>3, <1>9, <2>1
    <2> HIDE DEF t
    <2>8. next = t
      BY <1>3, <2>6, <2>7, SameSettings
    <2> QED
      BY <2>1, <2>5, <2>8 DEF next
  <1> QED
    BY <1>5, <1>6, <1>7, <1>8, <1>9 DEF Valued

LEMMA OptionPassed ==
    ASSUME NEW m, NEW heads, NEW last, Layout(Argv, m, heads, last), SettingsOK(settings),
           at \in heads, IsPartly(settings, m, Argv, heads, at),
           NEW n \in {1, 2}, n = 1 <=> Word \notin Valued
    PROVE  /\ at + n \in heads \cup {last + 1}
           /\ IsPartly(Onward(m), m, Argv, heads, at + n)
  <1>1. /\ at \in Nat /\ heads \in SUBSET Nat
        /\ Word \in Valued => at + 2 \in heads \cup {last + 1} /\ at + 1 \notin heads
        /\ Word \notin Valued => at + 1 \in heads \cup {last + 1}
    <2>1. heads \in SUBSET (1..last) /\ last \in Nat
      BY DEF Layout
    <2>2. heads \in SUBSET Nat
      BY <2>1
    <2>3. /\ Argv[at] \in Valued => at + 2 \in heads \cup {last + 1} /\ at + 1 \notin heads
          /\ Argv[at] \notin Valued => at + 1 \in heads \cup {last + 1}
      BY NextHead, Zenon
    <2> QED
      BY <2>2, <2>3 DEF Word
  <1>2. at + n \in heads \cup {last + 1}
    BY <1>1
  <1>3. /\ \A w : Passing(Argv, heads, at + n, w) = (Passing(Argv, heads, at, w) \/ Word = w)
        /\ PassedFile(Argv, heads, at + n) = (PassedFile(Argv, heads, at) \/ IsFree(Word))
    <2>1. at + n \in Nat /\ (at + n = at + 1 \/ (at + n = at + 2 /\ at + 1 \notin heads))
      BY <1>1
    <2>2. /\ \A w : Passing(Argv, heads, at + n, w) <=> Passing(Argv, heads, at, w) \/ Word = w
          /\ PassedFile(Argv, heads, at + n) <=> PassedFile(Argv, heads, at) \/ IsFree(Word)
      BY <1>1, <2>1, PassingMore DEF Word
    <2> QED
      BY <2>2, Zenon DEF Passing, PassedFile, IsFree
  <1>4. /\ Onward(m).expr = (IF Passing(Argv, heads, at + n, "-e") THEN m.expr ELSE Unset)
        /\ Onward(m).limit = (IF Passing(Argv, heads, at + n, "-n") THEN m.limit ELSE DefaultLimit)
        /\ Onward(m).file = (IF PassedFile(Argv, heads, at + n) THEN m.file ELSE Unset)
    BY <1>3, OnwardFields, Zenon DEF IsPartly
  <1>5. /\ Onward(m).quiet = Passing(Argv, heads, at + n, "-q")
        /\ Onward(m).trace = Passing(Argv, heads, at + n, "-t")
        /\ Onward(m).prelude = ~Passing(Argv, heads, at + n, "--no-prelude")
        /\ Onward(m).args = <<>>
    BY <1>3, OnwardFields, Zenon DEF IsPartly
  <1> QED
    BY <1>2, <1>4, <1>5, Zenon DEF IsPartly

(* Behind the last option, everything but the arguments is as it is meant. *)
LEMMA AllPassed ==
    ASSUME NEW m, NEW heads, NEW last, Layout(Argv, m, heads, last),
           IsPartly(settings, m, Argv, heads, last + 1)
    PROVE  /\ settings.expr = m.expr /\ settings.file = m.file /\ settings.limit = m.limit
           /\ settings.quiet = m.quiet /\ settings.trace = m.trace
           /\ settings.prelude = m.prelude /\ settings.args = <<>>
  <1>1. \A i \in heads : i < last + 1
    BY DEF Layout
  <1>2. /\ \A w : Passing(Argv, heads, last + 1, w) = \E i \in heads : Argv[i] = w
        /\ PassedFile(Argv, heads, last + 1) = \E i \in heads : IsFree(Argv[i])
    BY <1>1, Zenon DEF Passing, PassedFile
  <1>3. settings.expr = m.expr /\ settings.file = m.file /\ settings.limit = m.limit
    BY <1>2, Zenon DEF IsPartly, Layout, MeansOptions
  <1>4. /\ settings.quiet = m.quiet /\ settings.trace = m.trace
        /\ settings.prelude = m.prelude /\ settings.args = <<>>
    BY <1>2, Zenon DEF IsPartly, Layout, MeansOptions
  <1> QED
    BY <1>3, <1>4

LEMMA ArgumentsTaken ==
    ASSUME NEW m, NEW heads, NEW last, Layout(Argv, m, heads, last), IsSetting(m),
           SettingsOK(settings), at = last + 1,
           IsPartly(settings, m, Argv, heads, at), ReadWord
    PROVE  settings' = m /\ pc' = "check" /\ start' = start
  <1>1. /\ settings.expr = m.expr /\ settings.file = m.file /\ settings.limit = m.limit
        /\ settings.quiet = m.quiet /\ settings.trace = m.trace
        /\ settings.prelude = m.prelude /\ settings.args = <<>>
    BY AllPassed
  <1>2. last \in Nat /\ Len(Argv) \in Nat
    BY DEF Layout
  <1>3. settings = [f \in Settings |-> settings[f]] /\ m = [f \in Settings |-> m[f]]
    BY DEF SettingsOK, IsSetting
  <1> DEFINE s(a) == [settings EXCEPT !.args = a]
  <1>4. ASSUME NEW a, a = m.args PROVE s(a) = m
    <2>1. /\ s(a) = [f \in Settings |-> s(a)[f]] /\ s(a).args = m.args
          /\ s(a).expr = m.expr /\ s(a).file = m.file /\ s(a).limit = m.limit
          /\ s(a).quiet = settings.quiet /\ s(a).trace = settings.trace
          /\ s(a).prelude = settings.prelude
      BY <1>1, <1>3, <1>4 DEF Settings
    <2> HIDE DEF s
    <2>2. s(a).quiet = m.quiet /\ s(a).trace = m.trace /\ s(a).prelude = m.prelude
      BY <1>1, <2>1, Zenon
    <2> QED
      BY <1>3, <2>1, <2>2, SameSettings, Zenon
  <1>5. CASE last = Len(Argv) /\ m.args = <<>>
    <2>1. ReadEnd
      <3>1. ~(at <= Len(Argv))
        BY <1>2, <1>5
      <3>2. /\ \A w : ~Reading(w)
            /\ ~ReadFree
        BY <3>1, Zenon DEF Reading, ReadFree
      <3> QED
        BY <3>2, Zenon DEF ReadWord, ReadSeparator, ReadExpr, ReadLimit, ReadSwitch, ReadHelp,
           ReadUnknown
    <2>2. settings = m
      BY <1>1, <1>3, <1>5, SameSettings, Zenon
    <2> QED
      BY <2>1, <2>2 DEF ReadEnd, Stop
  <1>6. CASE /\ last < Len(Argv)
             /\ Argv[last + 1] = "--"
             /\ m.args = SubSeq(Argv, last + 2, Len(Argv))
    <2>1. ReadSeparator
      BY <1>2, <1>6, OneBranch DEF Word
    <2>2. (last + 1) + 1 = last + 2
      BY <1>2
    <2>3. Stop(s(m.args))
      BY <1>6, <2>1, <2>2 DEF ReadSeparator, From
    <2> QED
      BY <1>4, <2>3 DEF Stop
  <1>7. CASE /\ last < Len(Argv)
             /\ IsFree(Argv[last + 1])
             /\ m.expr # Unset \/ m.file # Unset
             /\ m.args = SubSeq(Argv, last + 1, Len(Argv))
    <2>1. ReadFree
      BY <1>2, <1>7, OneBranch DEF Word
    <2>2. Stop(s(m.args))
      BY <1>1, <1>7, <2>1 DEF ReadFree, From
    <2> QED
      BY <1>4, <2>2 DEF Stop
  <1> QED
    BY <1>5, <1>6, <1>7 DEF Layout, MeansArguments

LEMMA NoWordRead ==
    ASSUME [Next]_vars, ~ReadWord
    PROVE  /\ UNCHANGED <<start, settings>>
           /\ pc = "options" => UNCHANGED <<pc, at>>
           /\ pc # "options" => pc' # "options"
  <1>1. CASE RefuseConflict \/ NoMemory \/ CopyFails \/ MkdirFails \/ StdinFails
    <2>1. pc # "options" /\ \E n, m : Ends(n, m)
      BY <1>1, Zenon DEF RefuseConflict, NoMemory, CopyFails, MkdirFails, StdinFails, Exit, Starve
    <2> QED
      BY <2>1 DEF Ends
  <1>2. CASE CheckDone \/ Stat \/ Mkdir \/ MkdirExists \/ StoreDone
    BY <1>2 DEF CheckDone, Stat, Mkdir, MkdirExists, MkdirDone, StoreDone
  <1>3. CASE Evaluate \/ Unreadable \/ Release
    BY <1>3 DEF Evaluate, Unreadable, Release, Goto
  <1>4. CASE Report
    BY <1>4, Zenon DEF Report
  <1>5. CASE OtherMakes \/ Evaluating \/ ClientStep \/ UNCHANGED vars
    BY <1>5 DEF OtherMakes, Evaluating, ClientStep, vars, mainVars
  <1> QED
    BY <1>1, <1>2, <1>3, <1>4, <1>5, Zenon DEF Next, Main

LEMMA UsageStep == SettingsOK(settings) /\ UsageInv /\ [Next]_vars => UsageInv'
  <1> SUFFICES ASSUME SettingsOK(settings), UsageInv, [Next]_vars PROVE UsageInv'
    OBVIOUS
  <1>1. CASE ReadWord
    <2>1. pc = "options" /\ start' = start
      BY <1>1, ReadingStep DEF WordRead
    <2> SUFFICES ASSUME NEW m \in start.meant
                 PROVE  /\ IsSetting(m)
                        /\ \E last \in 0..Len(Argv) : \E heads \in SUBSET (1..last) :
                              Layout(Argv, m, heads, last) /\ MeantSoFar(m, heads, last)'
      BY <2>1, Zenon DEF UsageInv, Argv
    <2>2. IsSetting(m)
      BY DEF UsageInv
    <2>3. PICK last \in 0..Len(Argv) : \E heads \in SUBSET (1..last) :
              Layout(Argv, m, heads, last) /\ MeantSoFar(m, heads, last)
      BY Zenon DEF UsageInv
    <2>4. PICK heads \in SUBSET (1..last) :
              Layout(Argv, m, heads, last) /\ MeantSoFar(m, heads, last)
      BY <2>3, Zenon
    <2>5. at \in heads \cup {last + 1} /\ IsPartly(settings, m, Argv, heads, at)
      BY <2>1, <2>4, Zenon DEF MeantSoFar
    <2>6. CASE at \in heads
      <3>1. PICK n \in {1, 2} : (n = 1 <=> Word \notin Valued) /\ Take(n, Onward(m))
        BY <1>1, <2>2, <2>4, <2>5, <2>6, OptionTaken, Zenon
      <3>2. /\ at + n \in heads \cup {last + 1}
            /\ IsPartly(Onward(m), m, Argv, heads, at + n)
        BY <2>4, <2>5, <2>6, <3>1, OptionPassed, Zenon
      <3>3. pc' = "options" /\ at' = at + n /\ settings' = Onward(m)
        BY <2>1, <3>1, Zenon DEF Take
      <3>4. MeantSoFar(m, heads, last)'
        BY <2>1, <3>2, <3>3, Zenon DEF MeantSoFar, Argv
      <3> QED
        BY <2>2, <2>4, <3>4, Zenon
    <2>7. CASE at = last + 1
      <3>1. settings' = m /\ pc' = "check"
        BY <1>1, <2>2, <2>4, <2>5, <2>7, ArgumentsTaken, Zenon
      <3>2. MeantSoFar(m, heads, last)'
        BY <3>1 DEF MeantSoFar
      <3> QED
        BY <2>2, <2>4, <3>2, Zenon
    <2> QED
      BY <2>5, <2>6, <2>7, Zenon
  <1>2. CASE ~ReadWord
    <2>1. /\ UNCHANGED <<start, settings>>
          /\ pc = "options" => UNCHANGED <<pc, at>>
          /\ pc # "options" => pc' # "options"
      BY <1>2, NoWordRead
    <2>2. ASSUME NEW m, NEW heads, NEW last, MeantSoFar(m, heads, last)
          PROVE  MeantSoFar(m, heads, last)'
      BY <2>1, <2>2, Zenon DEF MeantSoFar, Argv
    <2> QED
      BY <2>1, <2>2, Zenon DEF UsageInv, Argv
  <1> QED
    BY <1>1, <1>2

(* main.c:163-227: a command line of the form the usage text gives, of     *)
(* whatever length, its options in any order, one that is repeated with    *)
(* the same value, and any arguments behind them, is read as it was meant. *)
THEOREM OptionsAreReadAsMeant == Spec => []MeantIsRead
  <1> DEFINE Inv == MainInv /\ UsageInv
  <1>1. Init => Inv
    BY MainInit, UsageInit
  <1>2. Inv /\ [Next]_vars => Inv'
    BY MainStep, UsageStep DEF MainInv
  <1>3. Inv => MeantIsRead
    <2> SUFFICES ASSUME UsageInv, start.meant # {}, pc # "options" PROVE settings \in start.meant
      BY DEF MeantIsRead
    <2>1. PICK m \in start.meant : TRUE
      OBVIOUS
    <2>2. settings = m
      BY Zenon DEF UsageInv, MeantSoFar
    <2> QED
      BY <2>2
  <1> QED
    BY <1>1, <1>2, <1>3, PTL DEF Spec
-----------------------------------------------------------------------------
(* The process ends: what is ahead of it is a number that every step       *)
(* lowers.  The words not yet read, the prefixes of the library path not   *)
(* yet passed, the phases of the call not yet run, and the prefixes (or    *)
(* what a link there leads to) that another process might still make.      *)
PhasesLeft ==
    [import |-> 9, merge |-> 8, scan |-> 7, parse |-> 6, lower |-> 5, reduce |-> 4,
     render |-> 3, idle |-> 2]

PlaceLeft ==
    CASE pc = "options"    -> 2 * Depth + 14 + (Len(Argv) - at)
      [] pc = "check"      -> 2 * Depth + 12
      [] pc = "stat"       -> 2 * (Depth + 1 - at) + 11
      [] pc = "mkdir"      -> 2 * (Depth + 1 - at) + 10
      [] pc = "newstate"   -> 10
      [] pc = "evaluating" -> PhasesLeft[phase]
      [] pc = "done"       -> 1
      [] OTHER             -> 0

Unmade == {"absent", "link"}
Absent == {k \in 1..Depth : store[k] \in Unmade}
StepsToExit == PlaceLeft + Cardinality(Absent)

(* No word is skipped over: at is never more than one past the last.       *)
InWords == pc = "options" => at \in 1..(Len(Argv) + 1)

LEMMA InWordsStep == RunInv /\ InWords /\ [Next]_vars => InWords'
  <1> SUFFICES ASSUME RunInv, InWords, [Next]_vars PROVE InWords'
    OBVIOUS
  <1>0. SettingsOK(settings) /\ Len(Argv) \in Nat
    BY DEF RunInv, MainInv, Words, Argv
  <1>1. CASE ReadWord
    <2>1. pc = "options" /\ start' = start
      BY <1>0, <1>1, ReadingStep DEF WordRead
    <2>2. \/ pc' # "options"
          \/ at' = at + 1 /\ at <= Len(Argv)
          \/ at' = at + 2 /\ at < Len(Argv)
      BY <1>1, <2>1
      DEF ReadWord, ReadSeparator, ReadExpr, ReadLimit, ReadSwitch, ReadHelp, ReadUnknown,
          ReadFree, ReadEnd, Take, Stop, Exit, Ends, Reading, HasNext
    <2> QED
      BY <1>0, <2>1, <2>2 DEF InWords, Argv
  <1>2. CASE ~ReadWord
    <2>1. /\ UNCHANGED start
          /\ pc = "options" => UNCHANGED <<pc, at>>
          /\ pc # "options" => pc' # "options"
      BY <1>2, NoWordRead
    <2> QED
      BY <2>1 DEF InWords, Argv
  <1> QED
    BY <1>1, <1>2

LEMMA AbsentAreFew == IsFiniteSet(Absent) /\ Cardinality(Absent) \in 0..Depth
  <1>1. IsFiniteSet(1..Depth) /\ Cardinality(1..Depth) = Depth
    BY DepthAssumption, FS_Interval
  <1>2. Absent \subseteq 1..Depth
    BY DEF Absent
  <1>3. IsFiniteSet(Absent) /\ Cardinality(Absent) <= Depth
    BY <1>1, <1>2, FS_Subset, Zenon
  <1> QED
    BY <1>3, FS_CardinalityType, DepthAssumption

(* A prefix is made, by whichever process: one less is absent.             *)
LEMMA MadeIsNotAbsent ==
    ASSUME store \in [1..Depth -> Standing],
           NEW k \in 1..Depth, store[k] \in Unmade, store' = [store EXCEPT ![k] = "dir"]
    PROVE  Cardinality(Absent') = Cardinality(Absent) - 1 /\ Cardinality(Absent) \in Nat
  <1>1. Absent' = Absent \ {k} /\ k \in Absent
    BY DEF Absent, Unmade
  <1>2. IsFiniteSet(Absent) /\ Cardinality(Absent) \in Nat
    BY AbsentAreFew
  <1>3. Cardinality(Absent \ {k}) = Cardinality(Absent) - 1
    BY <1>1, <1>2, FS_RemoveElement
  <1> QED
    BY <1>1, <1>2, <1>3

LEMMA PlaceLeftTypes ==
    ASSUME RunInv, InWords
    PROVE  PlaceLeft \in 0..(2 * Depth + 14 + Len(Argv))
  <1>1. /\ pc \in Places /\ Len(Argv) \in Nat /\ Depth \in Nat
        /\ pc \in {"stat", "mkdir"} => at \in 1..(Depth + 1)
        /\ phase \in Phases
        /\ pc = "options" => at \in 1..(Len(Argv) + 1)
    BY DepthAssumption
    DEF RunInv, Course, Words, Argv, MainInv, Walk, InWords, IInv, ApiTypeOK
  <1>2. PhasesLeft[phase] \in 0..10
    BY <1>1 DEF Phases, PhasesLeft
  <1>3. CASE pc \in {"stat", "mkdir"}
    BY <1>1, <1>3 DEF PlaceLeft
  <1>4. CASE pc = "options"
    BY <1>1, <1>4 DEF PlaceLeft
  <1>5. CASE pc \notin {"stat", "mkdir", "options"}
    BY <1>1, <1>2, <1>5 DEF PlaceLeft
  <1> QED
    BY <1>3, <1>4, <1>5

(* Every step of main brings it nearer to its end.                         *)
LEMMA PlaceLeftFalls ==
    ASSUME RunInv, InWords, Main
    PROVE  PlaceLeft' < PlaceLeft
  <1>1. /\ Len(Argv) \in Nat /\ Depth \in Nat /\ Depth > 0
        /\ pc \in {"stat", "mkdir"} => at \in 1..(Depth + 1)
        /\ pc = "options" => at \in 1..(Len(Argv) + 1)
        /\ phase \in Phases
    BY DepthAssumption DEF RunInv, Words, Argv, MainInv, Walk, InWords, IInv, ApiTypeOK
  <1>2. PhasesLeft[phase] \in 2..9
    BY <1>1 DEF Phases, PhasesLeft
  <1>3. CASE ReadWord
    <2>1. pc = "options" /\ start' = start
      BY <1>3, ReadingStep DEF RunInv, MainInv, WordRead
    <2>2. \/ pc' = "options" /\ at' \in {at + 1, at + 2}
          \/ pc' \in {"check", "exited"}
      BY <1>3, <2>1
      DEF ReadWord, ReadSeparator, ReadExpr, ReadLimit, ReadSwitch, ReadHelp, ReadUnknown,
          ReadFree, ReadEnd, Take, Stop, Exit, Ends
    <2>3. PlaceLeft = 2 * Depth + 14 + (Len(Argv) - at) /\ Argv' = Argv
      BY <2>1 DEF PlaceLeft, Argv
    <2>4. CASE pc' = "options" /\ at' \in {at + 1, at + 2}
      <3>1. PlaceLeft' = 2 * Depth + 14 + (Len(Argv) - at')
        BY <2>3, <2>4 DEF PlaceLeft
      <3> QED
        BY <1>1, <2>1, <2>3, <2>4, <3>1
    <2>5. CASE pc' \in {"check", "exited"}
      <3>1. PlaceLeft' \in {2 * Depth + 12, 0}
        BY <2>5 DEF PlaceLeft
      <3> QED
        BY <1>1, <2>1, <2>3, <3>1
    <2> QED
      BY <2>2, <2>4, <2>5
  <1>4. CASE RefuseConflict \/ NoMemory \/ CopyFails \/ MkdirFails \/ StdinFails
    <2>1. pc \in {"check", "newstate", "mkdir"} /\ pc' = "exited"
      BY <1>4 DEF RefuseConflict, NoMemory, CopyFails, MkdirFails, StdinFails, Exit, Starve, Ends
    <2> QED
      BY <1>1, <2>1 DEF PlaceLeft
  <1>5. CASE CheckDone \/ StoreDone
    BY <1>1, <1>5 DEF CheckDone, StoreDone, PlaceLeft
  <1>6. CASE Stat
    BY <1>1, <1>6 DEF Stat, PlaceLeft
  <1>7. CASE Mkdir \/ MkdirExists
    <2>1. pc = "mkdir" /\ pc' = "stat" /\ at' = at + 1
      BY <1>7 DEF Mkdir, MkdirExists, MkdirDone
    <2> QED
      BY <1>1, <2>1 DEF PlaceLeft
  <1>8. CASE Evaluate \/ Unreadable
    <2>1. pc = "newstate" /\ pc' = "evaluating" /\ phase' \in {"import", "idle"}
      BY <1>8 DEF Evaluate, Unreadable, Goto, Begin, Refuse, CanCall
    <2> QED
      BY <2>1 DEF PlaceLeft, PhasesLeft
  <1>9. CASE Evaluating
    <2>1. pc = "evaluating" /\ pc' = "evaluating"
      BY <1>9 DEF Evaluating, mainVars
    <2>2. /\ phase \in Phases \ {"idle"}
          /\ phase' = "idle" \/ <<phase, phase'>> \in
                {<<"import", "merge">>, <<"merge", "scan">>, <<"scan", "parse">>,
                 <<"parse", "lower">>, <<"lower", "reduce">>, <<"reduce", "render">>}
      BY <1>1, <1>9
      DEF Evaluating, EvalStep, Import, Merge, Scan, Parse, Lower, Reduce, Render, Goes,
          FailWithMessage, FailMutely, Fail
    <2>3. PhasesLeft[phase'] < PhasesLeft[phase]
      BY <2>2 DEF Phases, PhasesLeft
    <2> QED
      BY <2>1, <2>3 DEF PlaceLeft
  <1>10. CASE Report
    <2>1. pc = "evaluating" /\ pc' = "done"
      BY <1>10, Zenon DEF Report
    <2> QED
      BY <1>2, <2>1 DEF PlaceLeft
  <1>11. CASE Release
    BY <1>11 DEF Release, Goto, PlaceLeft
  <1> QED
    BY <1>3, <1>4, <1>5, <1>6, <1>7, <1>8, <1>9, <1>10, <1>11 DEF Main

(* The path is not changed but by making what is absent.                   *)
LEMMA AbsentNeverMore ==
    ASSUME RunInv, Main
    PROVE  Cardinality(Absent') <= Cardinality(Absent)
  <1>1. CASE Mkdir
    <2>1. at \in 1..Depth /\ store[at] = "absent" /\ store' = [store EXCEPT ![at] = "dir"]
      BY <1>1, DepthAssumption DEF Mkdir, MkdirDone, Makeable, RunInv, MainInv, Walk
    <2>2. Cardinality(Absent') = Cardinality(Absent) - 1 /\ Cardinality(Absent) \in Nat
      BY <2>1, MadeIsNotAbsent DEF Unmade, RunInv, MainInv
    <2> QED
      BY <2>2
  <1>2. CASE ~Mkdir
    <2>1. store' = store
      <3>1. CASE ReadWord
        BY <3>1, ReadingStep DEF RunInv, MainInv, WordRead
      <3>2. CASE ~ReadWord
        BY <1>2, <3>2
        DEF Main, RefuseConflict, NoMemory, CopyFails, MkdirFails, StdinFails, Exit, Starve, Ends,
            CheckDone, Stat, MkdirExists, MkdirDone, StoreDone, Evaluate, Unreadable, Goto, Evaluating, mainVars,
            Report, Release
      <3> QED
        BY <3>1, <3>2
    <2>2. Absent' = Absent /\ Cardinality(Absent) \in Nat
      BY <2>1, AbsentAreFew DEF Absent
    <2> QED
      BY <2>2
  <1> QED
    BY <1>1, <1>2

(* main.c:73, main.c:182, main.c:283: whatever the words, the disk, the    *)
(* depth of the library path, the phase the call ends in and the           *)
(* directories that other processes make meanwhile, at most three steps    *)
(* are taken for every name of the path, one for every word and 14 more:   *)
(* each step, that of another process included, lowers the number of those *)
(* that are left.                                                          *)
(* This is what Exits needs beyond the fairness of main.                   *)
THEOREM EveryStepNearsTheExit ==
    Spec => /\ [](StepsToExit \in 0..(3 * Depth + 14 + Len(Argv)))
            /\ [][pc # "client" => StepsToExit' < StepsToExit]_vars
  <1> DEFINE Inv == RunInv /\ InWords
  <1>1. Init => Inv
    <2> SUFFICES ASSUME Init PROVE InWords
      BY RunInit
    <2>1. Len(Argv) \in Nat
      BY RunInit DEF RunInv, Words, Argv
    <2> QED
      BY <2>1 DEF Init, InWords
  <1>2. Inv /\ [Next]_vars => Inv'
    BY RunStep, InWordsStep
  <1>3. Inv => PlaceLeft \in Nat /\ Cardinality(Absent) \in Nat
    <2> SUFFICES ASSUME Inv PROVE PlaceLeft \in Nat /\ Cardinality(Absent) \in Nat
      OBVIOUS
    <2> QED
      BY PlaceLeftTypes, AbsentAreFew
  <1>4. Inv' => (PlaceLeft \in Nat /\ Cardinality(Absent) \in Nat)'
    BY <1>3, PTL
  <1>5. Inv => StepsToExit \in 0..(3 * Depth + 14 + Len(Argv))
    <2> SUFFICES ASSUME Inv PROVE StepsToExit \in 0..(3 * Depth + 14 + Len(Argv))
      OBVIOUS
    <2>1. PlaceLeft \in 0..(2 * Depth + 14 + Len(Argv)) /\ Cardinality(Absent) \in 0..Depth
      BY PlaceLeftTypes, AbsentAreFew
    <2>2. Depth \in Nat /\ Len(Argv) \in Nat
      BY DepthAssumption DEF RunInv, Words, Argv
    <2> QED
      BY <2>1, <2>2 DEF StepsToExit
  <1>6. Inv /\ Inv' /\ [Next]_vars => [pc # "client" => StepsToExit' < StepsToExit]_vars
    <2> SUFFICES ASSUME Inv, Inv', Next, pc # "client"
                 PROVE  StepsToExit' < StepsToExit
      OBVIOUS
    <2>1. /\ PlaceLeft \in Nat /\ Cardinality(Absent) \in Nat
          /\ PlaceLeft' \in Nat /\ Cardinality(Absent') \in Nat
      BY <1>3, <1>4
    <2>2. CASE Main
      BY <2>1, <2>2, PlaceLeftFalls, AbsentNeverMore DEF StepsToExit
    <2>3. CASE OtherMakes
      <3>1. PICK k \in 1..Depth : store[k] \in Unmade /\ store' = [store EXCEPT ![k] = "dir"]
        BY <2>3 DEF OtherMakes, Makeable, Unmade
      <3>2. Cardinality(Absent') = Cardinality(Absent) - 1
        BY <3>1, MadeIsNotAbsent DEF RunInv, MainInv
      <3>3. PlaceLeft' = PlaceLeft
        BY <2>3 DEF OtherMakes, PlaceLeft, Argv, apiVars
      <3> QED
        BY <2>1, <3>2, <3>3 DEF StepsToExit
    <2> QED
      BY <2>2, <2>3 DEF Next, ClientStep
  <1> QED
    <2>1. Spec => []Inv
      BY <1>1, <1>2, PTL DEF Spec
    <2>2. Spec => [](StepsToExit \in 0..(3 * Depth + 14 + Len(Argv)))
      BY <1>5, <2>1, PTL
    <2> QED
      BY <1>6, <2>1, <2>2, PTL DEF Spec
=============================================================================
