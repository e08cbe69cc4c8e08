---------------------------- MODULE MessageCases ----------------------------
(***************************************************************************)
(* Every message a call carries, built up field by field, and what the     *)
(* codecs of module Wire make of it.  A message may hold messages three    *)
(* deep, as placeOrder's response does (an order, its items, the product   *)
(* and the cost of each): the codecs are instantiated once for every       *)
(* depth, each calling those of the depth below.                           *)
(***************************************************************************)
EXTENDS Integers, SequencesExt

CONSTANTS Schema,  \* the fields of every message, by its name
          Payloads, \* the messages the calls carry
          MaxSafe, Strings \* Wire

VARIABLES type,   \* the name of the message
          message \* its fields

vars == <<type, message>>

\* There is nothing below a flat message.
None(fields, m) == FALSE

Flat ==
    INSTANCE Wire
        WITH InnerEncode <- None, InnerDecode <- None, InnerToJSON <- None,
             InnerFromJSON <- None, InnerProper <- None,
             InnerHasUnsafe <- None, InnerFull <- None

Once ==
    INSTANCE Wire
        WITH InnerEncode <- Flat!Encode, InnerDecode <- Flat!Decode,
             InnerToJSON <- Flat!ToJSON, InnerFromJSON <- Flat!FromJSON,
             InnerProper <- Flat!Proper, InnerHasUnsafe <- Flat!HasUnsafe,
             InnerFull <- Flat!Full

Twice ==
    INSTANCE Wire
        WITH InnerEncode <- Once!Encode, InnerDecode <- Once!Decode,
             InnerToJSON <- Once!ToJSON, InnerFromJSON <- Once!FromJSON,
             InnerProper <- Once!Proper, InnerHasUnsafe <- Once!HasUnsafe,
             InnerFull <- Once!Full

Codec ==
    INSTANCE Wire
        WITH InnerEncode <- Twice!Encode, InnerDecode <- Twice!Decode,
             InnerToJSON <- Twice!ToJSON, InnerFromJSON <- Twice!FromJSON,
             InnerProper <- Twice!Proper, InnerHasUnsafe <- Twice!HasUnsafe,
             InnerFull <- Twice!Full

-----------------------------------------------------------------------------
\* The messages that hold only messages among some.
Holding(some) ==
    {t \in DOMAIN Schema :
        \A f \in ToSet(Schema[t]) : f.kind \in Codec!Nested => f.of \in some}

FlatTypes == Holding({})
OnceTypes == Holding(FlatTypes)
TwiceTypes == Holding(OnceTypes)

MessagesAssumption ==
    /\ \A t \in DOMAIN Schema : Codec!WellFormed(Schema[t])
    /\ DOMAIN Schema = Holding(TwiceTypes)
    /\ Payloads # {} /\ Payloads \subseteq DOMAIN Schema
    /\ MaxSafe \in Nat
    /\ {"", "a"} \subseteq Strings

-----------------------------------------------------------------------------
Init == type \in Payloads /\ message = Codec!CreateBase(Schema[type])

SetField ==
    \E f \in ToSet(Schema[type]), large \in {-MaxSafe, MaxSafe + 1} :
        /\ message[f.name] = Codec!Default(f)
        /\ message' = [message EXCEPT ![f.name] = Codec!Filled(f, large)]
        /\ UNCHANGED type

Next == SetField

Spec == Init /\ [][Next]_vars

-----------------------------------------------------------------------------
(***************************************************************************)
(* A message arrives as it was sent, over gRPC (encode, decode) and as     *)
(* JSON (toJSON, fromJSON): defaults, negative numbers, and undefined or   *)
(* repeated messages included.  A reader that lacks a field of the writer  *)
(* (decode skips its tag), or has one more, gets every field both know and *)
(* the default of the other.  The one exception is an amount or a time     *)
(* outside JavaScript's safe integers, at any depth, in a field both know: *)
(* it fails the call.                                                      *)
(***************************************************************************)
ArrivesAsSent ==
    \A writer, reader \in Codec!Versions(Schema[type]) :
        Schema[type] \in {writer, reader} => Codec!Arrives(message, writer, reader)
=============================================================================
