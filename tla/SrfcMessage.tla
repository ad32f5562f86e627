------------------------------ MODULE SrfcMessage ------------------------------
(***************************************************************************)
(* Requests and responses as objects and as bytes: what an application may *)
(* do with srfc_request objects, and serialize, is_valid_message and       *)
(* deserialize, which a message passes on its way to the other end.        *)
(*                                                                         *)
(* A message is a sequence of characters. A keyword (SRFCv1, TYPE, ...) is *)
(* one character here; numbers are written digit by digit, since the sizes *)
(* depend on their lengths. Text holds no NUL, a payload may.              *)
(***************************************************************************)
EXTENDS Integers, FiniteSets, SequencesExt

CONSTANTS Objects,                           \* srfc_request objects
          Character,                         \* what they are written with
          Params, Methods, Payloads,         \* what the application puts in them
          Statuses,
          PreambleWidth,                     \* 32 in the code
          FirstId, LastId,                   \* bounds: ids drawn from the counter
          MaxParams,                         \* bound: parameters of an object
          MaxText                            \* bound: length of a method, parameter, payload

VARIABLES req_id_counter,
          request,  \* the objects
          state     \* auxiliary: of an object, "clean": new or reset, without a parameter
                    \* since; "torn": deserialize threw, without a new payload since; "used"

vars == <<req_id_counter, request, state>>

NUL == "nul"
Separators == {":", "blank"}
Keywords == {"SRFCv1", "TYPE", "REQ", "RES", "RI", "PS", "STATUS"}
Digit == <<"0", "1", "2", "3", "4", "5", "6", "7", "8", "9">>
NoNumber == -1

(* 10 to the k, as far as a preamble has digits.                           *)
Power[k \in 0..PreambleWidth] == IF k = 0 THEN 1 ELSE 10 * Power[k-1]

(* Mutant: 0 has no digits (a while in place of the do).                   *)
NumberOfDigits_While(n) ==
  CHOOSE k \in 0..PreambleWidth : n < Power[k] /\ (k = 0 \/ n >= Power[k-1])

(* digits(): 0 has one.                                                    *)
NumberOfDigits(n) == CHOOSE k \in 1..PreambleWidth : n < Power[k] /\ (k = 1 \/ n >= Power[k-1])

Decimal(n, width) == [i \in 1..width |-> Digit[((n \div Power[width - i]) % 10) + 1]]

(* std::to_string: no zeros in front.                                      *)
Number(n) ==
  LET d == Decimal(n, PreambleWidth)
      first == CHOOSE i \in 1..PreambleWidth : /\ i = PreambleWidth \/ d[i] # "0"
                                              /\ \A j \in 1..i - 1 : d[j] = "0"
  IN  SubSeq(d, first, PreambleWidth)

(* The digits at the beginning; NoNumber, where it throws, without any.    *)
Stoul(s) ==
  LET other == SelectInSeq(s, LAMBDA c : c \notin ToSet(Digit))
      last == IF other = 0 THEN Len(s) ELSE other - 1
      value[k \in 0..last] ==
        IF k = 0 THEN 0 ELSE 10 * value[k-1] + (CHOOSE d \in 1..10 : Digit[d] = s[k]) - 1
  IN  IF last = 0 THEN NoNumber ELSE value[last]

(* The text before and after the first of the separators' characters, of   *)
(* which two are skipped whatever the second is; <<>> if it throws.        *)
SeparateParamVal(s) ==
  LET pos == SelectInSeq(s, LAMBDA c : c \in Separators)
  IN  IF pos > 1 /\ pos + 1 < Len(s)
      THEN <<SubSeq(s, 1, pos - 1), SubSeq(s, pos + 2, Len(s))>> ELSE <<>>

-----------------------------------------------------------------------------
(* Writing a message.                                                      *)

ParamLine(name, value) == name \o <<":", "blank">> \o value

LineSize(name, value) == Len(name) + 2 + Len(value) + 1

(* Mutant: the parameter is counted without its trailing NUL.              *)
ParamSize_NoNul(p) == Len(p[1]) + 2 + Len(p[2])

ParamSize(p) == LineSize(p[1], p[2])

NumberSize(name, n) == Len(name) + 2 + NumberOfDigits(n) + 1

CommonSize(id, size) == PreambleWidth + 2 + LineSize(<<"TYPE">>, <<"REQ">>)
                          + NumberSize(<<"RI">>, id) + NumberSize(<<"PS">>, size)

RequestHeaderSize(r) ==
  LET size[k \in 0..Len(r.parameters)] ==
        IF k = 0 THEN CommonSize(r.my_request_id, r.payload_size) + Len(r.method_name) + 1
                 ELSE size[k-1] + ParamSize(r.parameters[k])
  IN  size[Len(r.parameters)]

ResponseHeaderSize(r) ==
  CommonSize(r.request_id, r.payload_size) + NumberSize(<<"STATUS">>, r.status_code)

(* What is copied for the payload: beyond the end of its buffer, anything.  *)
PayloadBytes(r) == [i \in 1..r.payload_size |->
                      IF i \in DOMAIN r.payload THEN r.payload[i] ELSE "uninitialised"]

CommonLines(type, id, size) ==
  << <<"SRFCv1">>, ParamLine(<<"TYPE">>, <<type>>), ParamLine(<<"RI">>, Number(id)),
     ParamLine(<<"PS">>, Number(size)) >>

(* As many characters as the preamble has, zeros in front.                 *)
Preamble(n) ==
  SubSeq([i \in 1..PreambleWidth - NumberOfDigits(n) |-> "0"] \o Number(n), 1, PreambleWidth)

Message(headerSize, lines, r) ==
  Preamble(headerSize + r.payload_size)
    \o FlattenSeq([i \in DOMAIN lines |-> Append(lines[i], NUL)]) \o PayloadBytes(r)

SerializeRequest(r) ==
  Message(RequestHeaderSize(r),
          CommonLines("REQ", r.my_request_id, r.payload_size) \o <<r.method_name>>
            \o [i \in DOMAIN r.parameters |-> ParamLine(r.parameters[i][1], r.parameters[i][2])],
          r)

SerializeResponse(r) ==
  Message(ResponseHeaderSize(r),
          Append(CommonLines("RES", r.request_id, r.payload_size),
                 ParamLine(<<"STATUS">>, Number(r.status_code))),
          r)

-----------------------------------------------------------------------------
(* Reading a message. Its k-th line ends with the k-th NUL, for which those *)
(* of the payload are also taken; Line(m, k) throws if there is no k-th.   *)

Ends(m) == {i \in PreambleWidth + 1..Len(m) : m[i] = NUL}

End(m, k) ==
  LET ends == Ends(m) IN CHOOSE i \in ends : Cardinality({j \in ends : j <= i}) = k

Start(m, k) == IF k = 1 THEN PreambleWidth + 1 ELSE End(m, k-1) + 1

HasLine(m, k) == k <= Cardinality(Ends(m))

Line(m, k) == SubSeq(m, Start(m, k), End(m, k) - 1)

GetSizeFromPreamble(m) == Stoul(SubSeq(m, 1, PreambleWidth))

(* The number in a line of this name; NoNumber if it throws.               *)
NumberIn(m, k, name) ==
  LET p == SeparateParamVal(Line(m, k))
  IN  IF p # <<>> /\ p[1] = <<name>> THEN Stoul(p[2]) ELSE NoNumber

(* The lines from the sixth on that begin before the payload.              *)
ParamLines(m) ==
  LET bound == Len(m) - NumberIn(m, 4, "PS")
  IN  6..Cardinality({i \in Ends(m) : i < bound}) + 1

ExtractType(m) == SeparateParamVal(Line(m, 2))

(* What is_valid_message and both deserialize functions check first.       *)
ValidStart(m, types) ==
  /\ Len(m) >= PreambleWidth
  /\ GetSizeFromPreamble(m) = Len(m)
  /\ HasLine(m, 5)
  /\ Line(m, 1) = <<"SRFCv1">>
  /\ ExtractType(m) \in {<<<<"TYPE">>, <<t>>>> : t \in types}
  /\ NumberIn(m, 3, "RI") # NoNumber
  /\ NumberIn(m, 4, "PS") # NoNumber

ReadsParameter(m, k) == HasLine(m, k) /\ SeparateParamVal(Line(m, k)) # <<>>

(* Mutant: the parameters are not checked.                                 *)
IsValidMessage_ParametersSkipped(m) ==
  /\ ValidStart(m, {"REQ", "RES"})
  /\ ExtractType(m)[2] = <<"REQ">> \/ NumberIn(m, 5, "STATUS") # NoNumber

ValidParameters(m) == \A k \in ParamLines(m) : ReadsParameter(m, k)

IsValidMessage(m) ==
  /\ ValidStart(m, {"REQ", "RES"})
  /\ IF ExtractType(m)[2] = <<"REQ">> THEN ValidParameters(m)
                                      ELSE NumberIn(m, 5, "STATUS") # NoNumber

(* The last characters of a message.                                       *)
PayloadOf(m) == SubSeq(m, Len(m) - NumberIn(m, 4, "PS") + 1, Len(m))

(* srfc_request::deserialize(m) does not throw.                            *)
RequestReads(m) == ValidStart(m, {"REQ"}) /\ ValidParameters(m)

(* The first n parameters of m are added to those of r.                    *)
Parameters(m, r, n) == r.parameters \o [i \in 1..n |-> SeparateParamVal(Line(m, 5 + i))]

(* What it leaves in an object that held r.                                *)
DeserializeRequest(m, r) ==
  [my_request_id |-> NumberIn(m, 3, "RI"), method_name |-> Line(m, 5),
   parameters |-> Parameters(m, r, Cardinality(ParamLines(m))),
   payload |-> PayloadOf(m), payload_size |-> NumberIn(m, 4, "PS")]

(* The same where a parameter throws: the size is that of m, the payload   *)
(* still that of r.                                                        *)
DeserializeThrows(m, r) ==
  LET bad == CHOOSE k \in ParamLines(m) : /\ ~ReadsParameter(m, k)
                                          /\ \A j \in 6..k - 1 : ReadsParameter(m, j)
  IN  [my_request_id |-> NumberIn(m, 3, "RI"), method_name |-> Line(m, 5),
       parameters |-> Parameters(m, r, bad - 6),
       payload |-> r.payload, payload_size |-> NumberIn(m, 4, "PS")]

ResponseReads(m) == ValidStart(m, {"RES"}) /\ NumberIn(m, 5, "STATUS") # NoNumber

DeserializeResponse(m) ==
  [request_id |-> NumberIn(m, 3, "RI"), status_code |-> NumberIn(m, 5, "STATUS"),
   payload |-> PayloadOf(m), payload_size |-> NumberIn(m, 4, "PS")]

-----------------------------------------------------------------------------
(* The objects. Blank is one whose constructor draws no id.                *)

Text == Seq(Character \ {NUL})

(* What the application gives is text, and a preamble can tell the size of *)
(* any message: 32 digits are more than an unsigned long has.              *)
ASSUME MessageAssumption ==
  /\ PreambleWidth \in Nat \ {0} /\ MaxParams \in Nat /\ MaxText \in Nat
  /\ FirstId \in Nat \ {0} /\ LastId \in Nat /\ FirstId <= LastId + 1
  /\ {NUL, "uninitialised"} \cup Separators \cup Keywords \cup ToSet(Digit) \subseteq Character
  /\ LastId < Power[PreambleWidth] /\ Statuses \subseteq 0..Power[PreambleWidth] - 1
  /\ 4 * PreambleWidth + 20 + (MaxParams + 2) * (MaxText + 1) < Power[PreambleWidth]
  /\ \A method \in Methods : method \in Text /\ Len(method) <= MaxText
  /\ \A p \in Params : p \in Text \X Text /\ ParamSize(p) <= MaxText + 1
  /\ \A payload \in Payloads : payload \in Seq(Character) /\ Len(payload) <= MaxText

Blank == [my_request_id |-> 0, method_name |-> <<>>, parameters |-> <<>>,
          payload |-> <<>>, payload_size |-> 0]

Init == /\ req_id_counter = FirstId
        /\ request = [o \in Objects |-> Blank]
        /\ state = [o \in Objects |-> "clean"]

Becomes(o, r, s) == /\ request' = [request EXCEPT ![o] = r]
                    /\ state' = [state EXCEPT ![o] = s]

(* Mutant: the id is that of the counter when it is incremented.           *)
Construct_PreIncrement(o) ==
  /\ req_id_counter <= LastId
  /\ req_id_counter' = req_id_counter + 1
  /\ Becomes(o, [Blank EXCEPT !.my_request_id = req_id_counter + 1], "clean")

Construct(o) == /\ req_id_counter <= LastId
                /\ req_id_counter' = req_id_counter + 1
                /\ Becomes(o, [Blank EXCEPT !.my_request_id = req_id_counter], "clean")

SetMethod(o, method) ==
  /\ Becomes(o, [request[o] EXCEPT !.method_name = method], state[o])
  /\ UNCHANGED req_id_counter

(* What is done to the parameters of an object leaves its payload torn.    *)
Used(o) == IF state[o] = "torn" THEN "torn" ELSE "used"

AddParam(o, param) ==
  /\ Len(request[o].parameters) < MaxParams
  /\ Becomes(o, [request[o] EXCEPT !.parameters = Append(@, param)], Used(o))
  /\ UNCHANGED req_id_counter

SetParams(o, params) == /\ Becomes(o, [request[o] EXCEPT !.parameters = params], Used(o))
                        /\ UNCHANGED req_id_counter

(* The first parameter of that name, if there is one.                      *)
RemoveParam(o, name) ==
  /\ LET at == SelectInSeq(request[o].parameters, LAMBDA p : p[1] = name)
     IN  at # 0 /\ Becomes(o, [request[o] EXCEPT !.parameters = RemoveAt(@, at)], state[o])
  /\ UNCHANGED req_id_counter

SetPayload(o, payload) ==
  /\ Becomes(o, [request[o] EXCEPT !.payload = payload, !.payload_size = Len(payload)],
             IF state[o] = "torn" THEN "used" ELSE state[o])
  /\ UNCHANGED req_id_counter

(* Mutant: the parameters stay.                                            *)
Reset_KeepsParameters(o) ==
  /\ Becomes(o, [Blank EXCEPT !.my_request_id = request[o].my_request_id,
                              !.parameters = request[o].parameters], "clean")
  /\ UNCHANGED req_id_counter

(* The id stays, as the object can be reused.                              *)
Reset(o) == /\ Becomes(o, [Blank EXCEPT !.my_request_id = request[o].my_request_id], "clean")
            /\ UNCHANGED req_id_counter

Copy(o, from) == Becomes(o, request[from], state[from]) /\ UNCHANGED req_id_counter

Move(o, from) ==
  /\ o # from
  /\ request' = [request EXCEPT ![o] = request[from], ![from] = Blank]
  /\ state' = [state EXCEPT ![o] = state[from], ![from] = "clean"]
  /\ UNCHANGED req_id_counter

(* from is sent, and read into a new object (what the listener does) or    *)
(* into one that is there.                                                 *)
Receive(o, from) ==
  LET m == SerializeRequest(request[from])
  IN  /\ RequestReads(m)
      /\ \E r \in {Blank, request[o]} :
           /\ Len(DeserializeRequest(m, r).parameters) <= MaxParams
           /\ Becomes(o, DeserializeRequest(m, r), "used")
      /\ UNCHANGED req_id_counter

(* Reading it into an object that is there throws halfway.                 *)
ReceiveThrows(o, from) ==
  LET m == SerializeRequest(request[from])
  IN  /\ ValidStart(m, {"REQ"}) /\ ~ValidParameters(m)
      /\ Len(DeserializeThrows(m, request[o]).parameters) <= MaxParams
      /\ Becomes(o, DeserializeThrows(m, request[o]), "torn")
      /\ UNCHANGED req_id_counter

Next ==
  \E o \in Objects :
    \/ Construct(o) \/ Reset(o)
    \/ \E method \in Methods : SetMethod(o, method)
    \/ \E param \in Params : AddParam(o, param) \/ RemoveParam(o, param[1])
    \/ \E payload \in Payloads : SetPayload(o, payload)
    \/ \E from \in Objects : \/ SetParams(o, request[from].parameters)
                               \/ Copy(o, from) \/ Move(o, from)
                               \/ Receive(o, from) \/ ReceiveThrows(o, from)

Spec == Init /\ [][Next]_vars

-----------------------------------------------------------------------------
PlainParam(p) == p[1] # <<>> /\ p[2] # <<>> /\ ToSet(p[1]) \cap Separators = {}

Plain(r) == \A i \in DOMAIN r.parameters : PlainParam(r.parameters[i])

Response(r, status, payload) ==
  [request_id |-> r.my_request_id, status_code |-> status, payload |-> payload,
   payload_size |-> Len(payload)]

(* Every variable has its type.                                            *)
TypeOK ==
  /\ req_id_counter \in FirstId..LastId + 1
  /\ request \in [Objects -> [my_request_id : 0..LastId, method_name : Methods \cup {<<>>},
                             parameters : Seq(Text \X Text),
                             payload : Seq(Character), payload_size : Nat]]
  /\ state \in [Objects -> {"clean", "used", "torn"}]

(* A request whose names hold no separator and whose values are not empty  *)
(* is accepted at the other end and read as it was sent, also into an      *)
(* object that was used and reset; not one that deserialize threw in.      *)
RoundTrip ==
  \A o, q \in Objects : Plain(request[o]) /\ state[o] # "torn" /\ state[q] = "clean" =>
    LET m == SerializeRequest(request[o])
    IN  IsValidMessage(m) /\ RequestReads(m) /\ DeserializeRequest(m, request[q]) = request[o]

(* A message that serialize() wrote and is_valid_message accepts does not  *)
(* throw when it is read: the listener reads it outside any handler. Its   *)
(* id, method and payload arrive even where the parameters are split at    *)
(* the wrong place.                                                        *)
AcceptedParses ==
  \A o \in Objects :
    LET m == SerializeRequest(request[o])
        read == DeserializeRequest(m, Blank)
    IN  IsValidMessage(m) => /\ RequestReads(m)
                             /\ read.my_request_id = request[o].my_request_id
                             /\ read.method_name = request[o].method_name
                             /\ read.payload = PayloadBytes(request[o])

(* serialize() stays within its buffers: what it allocates it fills, to    *)
(* the byte, and the preamble tells that number to the receiver, whatever  *)
(* was done to the object. The size of the payload, of which it copies     *)
(* that many bytes, is that of what the object has, however it was copied, *)
(* moved, reset and read before, unless reading into it threw: deserialize *)
(* sets the size before the parameters and the payload behind them.        *)
BuffersFit ==
  \A o \in Objects :
    LET m == SerializeRequest(request[o])
    IN  /\ state[o] # "torn" => request[o].payload_size = Len(request[o].payload)
        /\ Len(m) = RequestHeaderSize(request[o]) + request[o].payload_size
        /\ GetSizeFromPreamble(m) = Len(m)

(* A response to any request arrives with its id, status and payload.      *)
ResponseRoundTrip ==
  \A o \in Objects, status \in Statuses, payload \in Payloads :
    LET r == Response(request[o], status, payload)
        m == SerializeResponse(r)
    IN  /\ Len(m) = ResponseHeaderSize(r) + r.payload_size
        /\ IsValidMessage(m) /\ ResponseReads(m) /\ DeserializeResponse(m) = r
=============================================================================
