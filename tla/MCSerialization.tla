-------------------------- MODULE MCSerialization --------------------------
(***************************************************************************)
(* Instances of Serialization for TLC.  The first takes every document of  *)
(* up to MaxRequests requests from a pool, in one run; the second a few    *)
(* documents, in several runs that leave files to each other.              *)
(***************************************************************************)
EXTENDS Serialization

CONSTANTS A, B, X, Y, Near, Far, Given, Half, db, old, MaxRequests

StopDoc(name, coordinates, road_distances) ==
  [type |-> "Stop", name |-> name, coordinates |-> coordinates,
   road_distances |-> road_distances]

BusDoc(name, stops, is_roundtrip) ==
  [type |-> "Bus", name |-> name, stops |-> stops, is_roundtrip |-> is_roundtrip]

Bare(type) == [type |-> type]

(* A is declared twice, with different roads; B gives the way back only.   *)
Pool ==
  {StopDoc(A, Near, << <<A, 5>>, <<B, 1>> >>), StopDoc(A, Far, << <<B, 2>> >>),
   StopDoc(B, Near, << <<A, 4>> >>), StopDoc(B, Far, <<>>),
   BusDoc(X, <<A, B>>, FALSE), BusDoc(X, <<B, A, B>>, TRUE), BusDoc(Y, <<A, A, B>>, TRUE),
   BusDoc(Y, <<>>, FALSE), Bare("Other")}

Spoilers == {Bare("Malformed"), Bare("Null")}

Doc(file, base, settings) ==
  [file |-> file, base |-> base, render_settings |-> settings, routing_settings |-> settings]

(* A spoiler is enough at one place of a document.                         *)
PoolDocs ==
  LET good == UNION {[1 .. n -> Pool] : n \in 0 .. MaxRequests}
      bad  == {<<r, s>> : r \in Pool, s \in Spoilers} \cup {<<s, r>> : r \in Pool, s \in Spoilers}
  IN  {Doc(db, base, Given) : base \in good \cup bad}

Network ==
  <<BusDoc(X, <<B, A>>, FALSE), StopDoc(A, Near, << <<B, 1>> >>), Bare("Other"),
    StopDoc(B, Far, << <<A, 2>> >>), BusDoc(X, <<B, A, B>>, TRUE)>>

HistoryDocs ==
  {Doc(db, Network, Given),
   Doc(db, <<StopDoc(B, Near, <<>>), BusDoc(X, <<B>>, TRUE)>>, Absent),
   Doc(db, <<BusDoc(X, <<A, B>>, TRUE), StopDoc(A, Far, <<>>)>>, Given),
   Doc(db, <<StopDoc(A, Far, <<>>), Bare("Malformed")>>, Given),
   Doc(db, <<StopDoc(A, Near, <<>>), StopDoc(A, Far, <<>>)>>, Given),
   [Doc(db, <<StopDoc(A, Near, <<>>)>>, Given) EXCEPT !.routing_settings = Bad],
   Doc(old, <<StopDoc(B, Far, <<>>)>>, Given),
   Doc(NoFile, <<StopDoc(A, Near, <<>>)>>, Given),
   Doc(Unreadable, <<>>, Absent)}

(* Of numbers and rows that are cut, some that are known and some that are *)
(* not.                                                                    *)
Torn == {0, 2}
TornRows == {<<>>, <<0, 2>>}

SameFile == {[file |-> db]}

AnyFile == {[file |-> f] : f \in {db, old, NoFile, Unreadable}}
=============================================================================
