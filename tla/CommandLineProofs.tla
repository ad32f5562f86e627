--------------------------- MODULE CommandLineProofs ---------------------------
(***************************************************************************)
(* Proofs about CommandLine: the one pass of parse_args and the checks of  *)
(* validate_globals agree with the command line read as a whole, for every *)
(* number of arguments and whatever the arguments may be.                  *)
(***************************************************************************)
EXTENDS CommandLine, TLAPS

(* The pairs parse_args has gone over.                                     *)
Seen == {k \in Pairs : k < i}

(* The option o was last given at k.                                       *)
LastSeen(o, k) == args[k] = o /\ \A n \in Seen : n > k => args[n] # o

(* The arguments are never changed and i is at the first of a pair.        *)
PlaceInv ==
  /\ args \in Seq(Tokens)
  /\ i \in Nat /\ (i = 1 \/ (i % 2 = 0 /\ 2 <= i /\ i <= Len(args) + 1))
  /\ value \in [Options -> Tokens \cup {Empty}]

(* What the first argument said.                                           *)
FirstInv ==
  /\ listen \in BOOLEAN
  /\ i = 1 => ~listen /\ address = Empty /\ \A o \in Options : value[o] = Empty
  /\ i # 1 => (listen <=> args[1] = "-l") /\ address = IF listen THEN Empty ELSE args[1]

(* The pairs seen are well-formed, and each option has the value given to  *)
(* it last.                                                                *)
SeenInv ==
  /\ \A k \in Seen : args[k] \in Options
  /\ \A k, n \in Seen : n > k /\ args[n] = args[k] => args[k+1] = Empty
  /\ \A o \in Options : \/ (\A k \in Seen : args[k] # o) /\ value[o] = Empty
                        \/ \E k \in Seen : LastSeen(o, k) /\ value[o] = args[k+1]

ScanInv == PlaceInv /\ FirstInv /\ SeenInv

(* Why the loop ended as it did.                                           *)
OutcomeInv ==
  \/ outcome = "parsing"
  \/ i = 1 /\ Len(args) < 1 /\ outcome = "failed"
  \/ Parses /\ ~Accepts /\ outcome = "failed"
  \/ /\ i > 1 /\ i > Len(args)
     /\ outcome = IF ~(Valid /\ PortConverts) THEN "failed"
                  ELSE IF listen THEN "server" ELSE "client"

LoopInv == ScanInv /\ OutcomeInv

-----------------------------------------------------------------------------
LEMMA ScanInit == Init => ScanInv
  <1> SUFFICES ASSUME Init PROVE ScanInv
    OBVIOUS
  <1>1. args \in Seq(Tokens)
    <2>1. PICK n \in 0..MaxArgs : args \in [1..n -> Tokens]
      BY DEF Init
    <2> QED
      BY <2>1, CommandLineAssumption
  <1>2. Seen = {}
    BY DEF Init, Seen, Pairs
  <1> QED
    BY <1>1, <1>2 DEF Init, ScanInv, PlaceInv, FirstInv, SeenInv, Options

LEMMA ScanFirst == ScanInv /\ First => ScanInv'
  <1> SUFFICES ASSUME ScanInv, First PROVE ScanInv'
    OBVIOUS
  <1>1. args' = args /\ value' = value /\ i = 1 /\ i' = 2 /\ Len(args) >= 1
    BY DEF First
  <1>2. PlaceInv'
    BY <1>1 DEF ScanInv, PlaceInv
  <1>3. FirstInv'
    <2>1. CASE args[1] = "-l"
      BY <1>1, <2>1 DEF First, ScanInv, FirstInv
    <2>2. CASE args[1] # "-l"
      BY <1>1, <2>2 DEF First, ScanInv, FirstInv
    <2> QED
      BY <2>1, <2>2
  <1>4. Seen' = {}
    BY <1>1 DEF Seen, Pairs
  <1>5. SeenInv'
    BY <1>1, <1>4 DEF SeenInv, ScanInv, FirstInv
  <1> QED
    BY <1>2, <1>3, <1>5 DEF ScanInv

LEMMA ScanOption == ScanInv /\ Option => ScanInv'
  <1> SUFFICES ASSUME ScanInv, Option PROVE ScanInv'
    OBVIOUS
  <1> DEFINE o == args[i]
  <1>1. /\ args' = args /\ listen' = listen /\ address' = address
        /\ i \in Nat /\ i' = i + 2 /\ i % 2 = 0 /\ 2 <= i /\ i < Len(args) /\ Len(args) \in Nat
        /\ o \in Options /\ value[o] = Empty
    BY DEF Option, Parses, Accepts, Free, ScanInv, PlaceInv
  <1>2. /\ value \in [Options -> Tokens \cup {Empty}]
        /\ value' = [value EXCEPT ![o] = args[i+1]]
    BY DEF Option, ScanInv, PlaceInv
  <1>3. args[i+1] \in Tokens
    BY <1>1 DEF ScanInv, PlaceInv
  <1>4. PlaceInv'
    <2>1. i' % 2 = 0
      BY <1>1
    <2>2. value' \in [Options -> Tokens \cup {Empty}]
      BY <1>1, <1>2, <1>3
    <2> QED
      BY <1>1, <2>1, <2>2 DEF ScanInv, PlaceInv
  <1>5. FirstInv'
    BY <1>1 DEF ScanInv, FirstInv
  <1>6. Seen' = Seen \cup {i} /\ i \notin Seen /\ \A k \in Seen : k \in Nat /\ k < i
    BY <1>1 DEF Seen, Pairs
  <1>7. \A k \in Seen : args[k] = o => args[k+1] = Empty
    <2> SUFFICES ASSUME NEW k \in Seen, args[k] = o PROVE args[k+1] = Empty
      OBVIOUS
    <2>1. PICK l \in Seen : LastSeen(o, l) /\ value[o] = args[l+1]
      BY <1>1 DEF ScanInv, SeenInv
    <2> QED
      BY <1>1, <1>6, <2>1 DEF LastSeen, ScanInv, SeenInv
  <1>8. \A p \in Options : \/ (\A k \in Seen' : args[k] # p) /\ value'[p] = Empty
                           \/ \E k \in Seen' : LastSeen(p, k)' /\ value'[p] = args[k+1]
    <2> SUFFICES ASSUME NEW p \in Options
                 PROVE  \/ (\A k \in Seen' : args[k] # p) /\ value'[p] = Empty
                        \/ \E k \in Seen' : LastSeen(p, k)' /\ value'[p] = args[k+1]
      OBVIOUS
    <2>1. CASE p = o
      <3>1. value'[p] = args[i+1]
        BY <1>1, <1>2, <2>1
      <3>2. PICK j \in Nat : j = i
        BY <1>1
      <3>3. LastSeen(p, j)'
        BY <1>1, <1>6, <2>1, <3>2 DEF LastSeen
      <3> QED
        BY <1>1, <1>6, <3>1, <3>2, <3>3
    <2>2. CASE p # o
      <3>1. value'[p] = value[p]
        BY <1>2, <2>2
      <3>2. \A k \in Seen : LastSeen(p, k) => LastSeen(p, k)'
        BY <1>1, <1>6, <2>2 DEF LastSeen
      <3> QED
        BY <1>1, <1>6, <2>2, <3>1, <3>2 DEF ScanInv, SeenInv
    <2> QED
      BY <2>1, <2>2
  <1>9. SeenInv'
    <2>1. \A k \in Seen' : args[k] \in Options
      BY <1>1, <1>6 DEF ScanInv, SeenInv
    <2>2. \A k, n \in Seen' : n > k /\ args[n] = args[k] => args[k+1] = Empty
      BY <1>1, <1>6, <1>7 DEF ScanInv, SeenInv
    <2> QED
      BY <1>1, <1>8, <2>1, <2>2 DEF SeenInv
  <1> QED
    BY <1>4, <1>5, <1>9 DEF ScanInv

LEMMA ScanNext == ScanInv /\ [Next]_vars => ScanInv'
  <1> SUFFICES ASSUME ScanInv, [Next]_vars PROVE ScanInv'
    OBVIOUS
  <1>1. CASE First
    BY <1>1, ScanFirst
  <1>2. CASE Option
    BY <1>2, ScanOption
  <1>3. CASE UNCHANGED <<args, i, listen, address, value>>
    BY <1>3 DEF ScanInv, PlaceInv, FirstInv, SeenInv, Seen, Pairs, LastSeen
  <1> QED
    BY <1>1, <1>2, <1>3 DEF Next, TooFew, InvalidOption, Run, Ends, vars

-----------------------------------------------------------------------------
(* A loop that refuses an argument refuses an ill-formed command line.     *)
LEMMA RefusesIllFormed == ScanInv /\ Parses /\ ~Accepts => ~WellFormed
  <1> SUFFICES ASSUME ScanInv, Parses, ~Accepts, WellFormed PROVE FALSE
    OBVIOUS
  <1>1. i \in Pairs /\ i \in Nat /\ Len(args) \in Nat /\ i <= Len(args) /\ i % 2 = 0
    BY DEF ScanInv, PlaceInv, Parses, Pairs
  <1>2. args[i] \in Options /\ i < Len(args)
    <2>1. args[i] \in Options
      BY <1>1 DEF WellFormed
    <2>2. Len(args) % 2 = 1
      BY DEF WellFormed
    <2>3. i # Len(args)
      BY <1>1, <2>2
    <2> QED
      BY <1>1, <2>1, <2>3
  <1>3. value[args[i]] # Empty
    BY <1>2 DEF Accepts, Free
  <1>4. PICK k \in Seen : args[k] = args[i] /\ value[args[i]] = args[k+1]
    BY <1>2, <1>3 DEF ScanInv, SeenInv, LastSeen
  <1> QED
    BY <1>1, <1>3, <1>4 DEF WellFormed, Seen

(* A loop that reaches the end has read a well-formed command line, and    *)
(* the globals are what it gives.                                          *)
LEMMA ReadsWellFormed ==
  ScanInv /\ i > Len(args) /\ i > 1 => WellFormed /\ \A o \in Options : value[o] = Given(o)
  <1> SUFFICES ASSUME ScanInv, i > Len(args), i > 1
               PROVE  WellFormed /\ \A o \in Options : value[o] = Given(o)
    OBVIOUS
  <1>1. Len(args) \in Nat /\ i = Len(args) + 1 /\ i % 2 = 0
    BY DEF ScanInv, PlaceInv
  <1>2. Seen = Pairs /\ \A k \in Pairs : k \in Nat
    BY <1>1 DEF Seen, Pairs
  <1>3. WellFormed
    BY <1>1, <1>2 DEF ScanInv, SeenInv, WellFormed
  <1>4. ASSUME NEW o \in Options PROVE value[o] = Given(o)
    <2> DEFINE P(k) == args[k] = o /\ \A n \in Pairs : n > k => args[n] # o
    <2>1. CASE \A k \in Pairs : args[k] # o
      <3>1. value[o] = Empty
        BY <1>2, <2>1 DEF ScanInv, SeenInv, LastSeen
      <3>2. Last(o) = 0
        BY <2>1 DEF Last
      <3> QED
        BY <3>1, <3>2 DEF Given
    <2>2. CASE \E k \in Pairs : P(k) /\ value[o] = args[k+1]
      <3>1. PICK k \in Pairs : P(k) /\ value[o] = args[k+1]
        BY <2>2
      <3>2. \A n \in Pairs : P(n) => n = k
        BY <1>2, <3>1
      <3>3. (CHOOSE n \in Pairs : P(n)) = k
        BY <3>1, <3>2
      <3>4. Last(o) = k + 1
        BY <3>1, <3>3 DEF Last
      <3> QED
        BY <1>2, <3>1, <3>4 DEF Given
    <2> QED
      BY <1>2, <2>1, <2>2 DEF ScanInv, SeenInv, LastSeen
  <1> QED
    BY <1>3, <1>4

LEMMA OutcomeNext == LoopInv /\ [Next]_vars => OutcomeInv'
  <1> SUFFICES ASSUME LoopInv, [Next]_vars PROVE OutcomeInv'
    OBVIOUS
  <1> USE DEF LoopInv, OutcomeInv, Parses, Accepts, Free, Valid, PortConverts
  <1>1. CASE TooFew
    BY <1>1 DEF TooFew, Ends
  <1>2. CASE outcome = "parsing" /\ (First \/ Option)
    BY <1>2 DEF First, Option
  <1>3. CASE InvalidOption
    BY <1>3 DEF InvalidOption, Ends
  <1>4. CASE Run
    BY <1>4 DEF Run, Ends
  <1>5. CASE UNCHANGED vars
    BY <1>5 DEF vars
  <1> QED
    BY <1>1, <1>2, <1>3, <1>4, <1>5 DEF Next

LEMMA OutcomeIsSaid == LoopInv => StartsAsSaid
  <1> SUFFICES ASSUME LoopInv, outcome # "parsing" PROVE StartsAsSaid
    BY DEF StartsAsSaid
  <1>1. CASE i = 1 /\ Len(args) < 1 /\ outcome = "failed"
    <2>1. ~WellFormed
      BY <1>1 DEF WellFormed, LoopInv, ScanInv, PlaceInv
    <2> QED
      BY <1>1, <2>1 DEF StartsAsSaid, Says
  <1>2. CASE Parses /\ ~Accepts /\ outcome = "failed"
    BY <1>2, RefusesIllFormed DEF LoopInv, StartsAsSaid, Says
  <1>3. CASE /\ i > 1 /\ i > Len(args)
             /\ outcome = IF ~(Valid /\ PortConverts) THEN "failed"
                          ELSE IF listen THEN "server" ELSE "client"
    <2>1. WellFormed /\ \A o \in Options : value[o] = Given(o)
      BY <1>3, ReadsWellFormed DEF LoopInv
    <2>2. (listen <=> args[1] = "-l") /\ address = IF listen THEN Empty ELSE args[1]
      BY <1>3 DEF LoopInv, ScanInv, FirstInv, PlaceInv
    <2>3. Given("-p") \in Numbers => Given("-p") # Empty
      BY CommandLineAssumption
    <2>4. ~NoInterface => outcome = Says
      BY <1>3, <2>1, <2>2, <2>3 DEF NoInterface, Says, Valid, PortConverts, Options
    <2> QED
      BY <2>1, <2>4 DEF StartsAsSaid
  <1> QED
    BY <1>1, <1>2, <1>3 DEF LoopInv, OutcomeInv

(* Exactly the command lines that are well-formed as a whole start a       *)
(* server or a client, with the values that were given: parse_args,        *)
(* validate_globals and the conversion of the port refuse all others, but  *)
(* for a server that was given no interface.                               *)
THEOREM CommandLineRead == Spec => []StartsAsSaid
  <1>1. Init => LoopInv
    BY ScanInit DEF LoopInv, OutcomeInv, Init
  <1>2. LoopInv /\ [Next]_vars => LoopInv'
    BY ScanNext, OutcomeNext DEF LoopInv
  <1> QED
    BY <1>1, <1>2, OutcomeIsSaid, PTL DEF Spec
=============================================================================
