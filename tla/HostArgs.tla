------------------------------ MODULE HostArgs ------------------------------
(***************************************************************************)
(* The options on an application's command line.  parse_args is the same   *)
(* loop in every application of the repository: argi advances by two, an   *)
(* option and its value, and by one more at an option without a value.     *)
(* Later options override earlier ones.                                    *)
(***************************************************************************)
EXTENDS Integers, Sequences

CONSTANT Numeral  \* the words that are numbers, as a function to the number

ASSUME HostArgsAssumption == Numeral \in [DOMAIN Numeral -> Int]

(* The options without a value: cancel the task, and, of offload, copy.     *)
Flags == {"-c", "-cp"}

(* std::max<int>(1, strtoll(word)): a word that is no number counts as 0. *)
AtLeastOne(word) ==
  IF word \in DOMAIN Numeral /\ Numeral[word] > 1 THEN Numeral[word] ELSE 1

(* The places of the command line at which the loop looks for an option.    *)
Visited(argv) ==
  LET at[i \in DOMAIN argv] ==
        \/ i = 1
        \/ i > 2 /\ at[i - 2] /\ argv[i - 2] \notin Flags
        \/ i > 3 /\ at[i - 3] /\ argv[i - 3] \in Flags
  IN  {i \in DOMAIN argv : at[i]}

(* No value is missing: the loop would hand the NULL that ends argv to      *)
(* strtoll, and the program would not get any further.                      *)
Readable(argv) == Len(argv) \in Visited(argv) => argv[Len(argv)] \in Flags

Flag(argv, option) == \E i \in Visited(argv) : argv[i] = option

Value(argv, option, default) ==
  LET given == {i \in Visited(argv) : argv[i] = option}
  IN  IF given = {} THEN default
      ELSE LET last == CHOOSE i \in given : \A j \in given : j <= i
           IN  AtLeastOne(argv[last + 1])

---------------------------------------------------------------------------
(* The command line as print_usage documents it: an option other than a     *)
(* flag is followed by its value.                                           *)
Documented(argv) ==
  LET at[i \in DOMAIN argv] ==
        \/ i = 1
        \/ i > 2 /\ at[i - 2] /\ argv[i - 2] \notin Flags
        \/ i > 1 /\ at[i - 1] /\ argv[i - 1] \in Flags
  IN  {i \in DOMAIN argv : at[i]}

(* Every option the user has given is looked at, and no value is taken for  *)
(* an option, if a flag comes last.                                           *)
HonoursOptions(argv) ==
  (\A i \in Documented(argv) : argv[i] \in Flags => i = Len(argv))
    => Visited(argv) = Documented(argv)
=============================================================================
