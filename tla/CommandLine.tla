------------------------------ MODULE CommandLine ------------------------------
(***************************************************************************)
(* The command line of netshot: parse_args goes over the arguments and     *)
(* sets globals, validate_globals looks at them, and run_server or         *)
(* run_client converts the port. Every exception ends in main.             *)
(***************************************************************************)
EXTENDS Integers, Sequences

(* The empty string: what a global holds until it is set.                  *)
Empty == ""

CONSTANTS Tokens,   \* what an argument may be, Empty included
          Numbers,  \* those that std::stoul converts
          MaxArgs   \* bound: arguments

ASSUME CommandLineAssumption == Numbers \subseteq Tokens \ {Empty} /\ MaxArgs \in Nat

Options == {"-i", "-p", "-d"}  \* interface, port, display

VARIABLES args,     \* argv without the program
          i,        \* the argument looked at
          listen, address,
          value,    \* the globals interface, port and display, by their option
          outcome   \* "parsing", "failed", or what is run

vars == <<args, i, listen, address, value, outcome>>

Init == /\ args \in UNION {[1..n -> Tokens] : n \in 0..MaxArgs}
        /\ i = 1 /\ listen = FALSE /\ address = Empty
        /\ value = [o \in Options |-> Empty]
        /\ outcome = "parsing"

Ends(result) == outcome' = result /\ UNCHANGED <<args, i, listen, address, value>>

TooFew == i = 1 /\ Len(args) < 1 /\ Ends("failed")

First == /\ i = 1 /\ Len(args) >= 1 /\ i' = 2
         /\ IF args[1] = "-l" THEN listen' = TRUE /\ UNCHANGED address
                              ELSE address' = args[1] /\ UNCHANGED listen
         /\ UNCHANGED <<args, value, outcome>>

(* Mutant: a second value replaces the first.                              *)
Free_Always(o) == TRUE

(* An option may be given again as long as its value is empty.             *)
Free(o) == value[o] = Empty

Parses == i > 1 /\ i <= Len(args)

Accepts == args[i] \in Options /\ i < Len(args) /\ Free(args[i])

(* An option takes the next argument, whatever it looks like.              *)
Option == /\ Parses /\ Accepts
          /\ value' = [value EXCEPT ![args[i]] = args[i+1]]
          /\ i' = i + 2
          /\ UNCHANGED <<args, listen, address, outcome>>

InvalidOption == Parses /\ ~Accepts /\ Ends("failed")

Valid == IF listen THEN address = Empty /\ value["-d"] = Empty /\ value["-p"] # Empty
                   ELSE address # Empty /\ value["-i"] = Empty /\ value["-p"] # Empty

PortConverts == value["-p"] \in Numbers

Run == /\ i > Len(args) /\ i > 1
       /\ Ends(IF ~(Valid /\ PortConverts) THEN "failed" ELSE IF listen THEN "server" ELSE "client")

Next == outcome = "parsing" /\ (TooFew \/ First \/ Option \/ InvalidOption \/ Run)

Spec == Init /\ [][Next]_vars

-----------------------------------------------------------------------------
(* What the arguments say, read as a whole: -l or an address, then pairs   *)
(* of an option and its value.                                             *)
Pairs == {k \in 2..Len(args) : k % 2 = 0}

(* The place of an option's value, 0 without one.                          *)
Last(o) == IF \E k \in Pairs : args[k] = o
           THEN (CHOOSE k \in Pairs : args[k] = o /\ \A n \in Pairs : n > k => args[n] # o) + 1
           ELSE 0

Given(o) == IF Last(o) = 0 THEN Empty ELSE args[Last(o)]

WellFormed ==
  /\ Len(args) % 2 = 1
  /\ \A k \in Pairs : /\ args[k] \in Options
                      /\ \A n \in Pairs : n > k /\ args[n] = args[k] => args[k+1] = Empty

(* -i goes with -l, -d without it, and either needs its port.              *)
Says == IF ~WellFormed \/ Given("-p") \notin Numbers THEN "failed"
        ELSE IF args[1] = "-l"
             THEN IF Given("-i") # Empty /\ Given("-d") = Empty THEN "server" ELSE "failed"
        ELSE IF args[1] # Empty /\ Given("-i") = Empty THEN "client" ELSE "failed"

NoInterface == WellFormed /\ args[1] = "-l" /\ Given("-i") = Empty

(* Exactly the command lines that are well-formed as a whole start a       *)
(* server or a client, in any order of the options, and with the values    *)
(* that were given; all others are refused. Left out is a server without    *)
(* an interface: README.md:28 calls -i obligatory with -l, and              *)
(* validate_globals does not look.                                          *)
StartsAsSaid ==
  /\ outcome # "parsing" /\ ~NoInterface => outcome = Says
  /\ outcome \in {"server", "client"} => \A o \in Options : value[o] = Given(o)
=============================================================================
