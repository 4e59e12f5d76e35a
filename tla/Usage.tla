------------------------------- MODULE Usage -------------------------------
(***************************************************************************)
(* The command lines that usage (main.c) describes, of whatever length,    *)
(* and what they are to mean.  The words up to "last" are the options in   *)
(* any order, one that is repeated with the same value, and the file; what *)
(* follows are the arguments.  "heads" are the places where an option or   *)
(* the file begins; the other places hold the value of the option before   *)
(* them.                                                                   *)
(***************************************************************************)
EXTENDS CommandLine

Valued   == {"-e", "-n"}
Switches == {"-q", "-t", "--no-prelude"}
IsFree(w) == w \notin OptionLike

(* The options, each with its value, and at most one file.                 *)
AreOptions(argv, heads, last) ==
    /\ \A i \in 1..last :
          i \in heads <=> ~(i > 1 /\ i - 1 \in heads /\ argv[i - 1] \in Valued)
    /\ \A i \in heads :
          \/ argv[i] \in Valued /\ i < last
          \/ argv[i] \in Switches
          \/ IsFree(argv[i])
    /\ \A i, j \in heads : IsFree(argv[i]) /\ IsFree(argv[j]) => i = j

(* No word is the unset one: that stands for NULL.                         *)
MeansOptions(argv, heads, s) ==
    LET Given(w) == \E i \in heads : argv[i] = w IN
    /\ \A i \in heads :
          /\ argv[i] = "-e" => s.expr = argv[i + 1] /\ s.expr # Unset
          /\ argv[i] = "-n" => IsLimit(argv[i + 1]) /\ s.limit = LimitRead(argv[i + 1])
          /\ IsFree(argv[i]) => s.file = argv[i] /\ s.file # Unset
    /\ ~Given("-e") => s.expr = Unset
    /\ ~Given("-n") => s.limit = DefaultLimit
    /\ (\A i \in heads : ~IsFree(argv[i])) => s.file = Unset
    /\ s.quiet = Given("-q")
    /\ s.trace = Given("-t")
    /\ s.prelude = ~Given("--no-prelude")

(* The arguments follow --, or, once there is something to evaluate, a     *)
(* word that is no option.                                                 *)
MeansArguments(argv, last, s) ==
    \/ last = Len(argv) /\ s.args = <<>>
    \/ /\ last < Len(argv)
       /\ argv[last + 1] = "--"
       /\ s.args = SubSeq(argv, last + 2, Len(argv))
    \/ /\ last < Len(argv)
       /\ IsFree(argv[last + 1])
       /\ s.expr # Unset \/ s.file # Unset
       /\ s.args = SubSeq(argv, last + 1, Len(argv))

IsUsage(argv, s) ==
    /\ DOMAIN s = DOMAIN DefaultSettings
    /\ s = [f \in DOMAIN s |-> s[f]]
    /\ s.expr = Unset \/ s.file = Unset
    /\ \E last \in 0..Len(argv) :
          /\ MeansArguments(argv, last, s)
          /\ \E heads \in SUBSET (1..last) :
                AreOptions(argv, heads, last) /\ MeansOptions(argv, heads, s)

ASSUME MeantAssumption == \A s \in Starts : \A m \in s.meant : IsUsage(s.argv, m)
=============================================================================
