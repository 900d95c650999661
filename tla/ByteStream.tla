------------------------------ MODULE ByteStream ------------------------------
(***************************************************************************)
(* What one direction of the serial port of udi_cdc.c promises: bytes      *)
(* arrive once and in the order in which they were put in, and none is     *)
(* lost while the link is up.  A link goes down when the interface is      *)
(* disabled, or its endpoint halted or unable to run a transfer; bytes may *)
(* be lost then, and a link that comes up again carries the rest.  A link  *)
(* may also go astray: nothing is promised then of what is on its way.     *)
(*                                                                         *)
(* The n-th byte put in is the number n.  UdiCdcTx and UdiCdcRx implement  *)
(* this specification, the former with a link that never goes astray.      *)
(***************************************************************************)
EXTENDS Naturals, Sequences, SequencesExt

CONSTANT Bytes    \* numbers of the bytes whose arrival is asked for

VARIABLES
  link,     \* "up" while it works, "down", or "astray"
  asked,    \* is the receiving side waiting for bytes
  put,      \* number of bytes put in so far
  waiting,  \* bytes put in, on their way
  arrived   \* bytes that have arrived

vars == <<link, asked, put, waiting, arrived>>

Init ==
  /\ link = "down" /\ asked \in BOOLEAN
  /\ put = 0 /\ waiting = <<>> /\ arrived = <<>>

(* The k bytes that follow those put in so far. *)
Fresh(k) == [i \in 1 .. k |-> put + i]

Put ==
  /\ put' > put
  /\ waiting' = waiting \o Fresh(put' - put)
  /\ UNCHANGED <<link, arrived>>

Arrive ==
  \E n \in 1 .. Len(waiting) :
    /\ arrived' = arrived \o SubSeq(waiting, 1, n)
    /\ waiting' = SubSeq(waiting, n + 1, Len(waiting))
    /\ UNCHANGED <<link, put>>

(* Ways to keep n of m elements in their order: the places they come from. *)
Kept(n, m) ==
  {from \in [1 .. n -> 1 .. m] : \A i, j \in 1 .. n : i < j => from[i] < from[j]}

(* What is left of s when some of its elements are lost. *)
Remains(s) ==
  UNION {{[i \in 1 .. n |-> s[from[i]]] : from \in Kept(n, Len(s))} : n \in 0 .. Len(s)}

GoDown ==
  /\ link' = "down"
  /\ waiting' \in Remains(waiting)
  /\ UNCHANGED <<put, arrived>>

ComeUp ==
  /\ link = "down" /\ link' = "up"
  /\ waiting' \in Remains(waiting)
  /\ UNCHANGED <<put, arrived>>

(* What has arrived has arrived.                                           *)
Stray ==
  /\ link' \in {"up", "down", "astray"} /\ "astray" \in {link, link'}
  /\ IsPrefix(arrived, arrived')
  /\ waiting' \in Seq(Nat)
  /\ UNCHANGED put

(* The receiving side asks and stops asking when it likes. *)
Ask == UNCHANGED <<link, put, waiting, arrived>>

Next == /\ asked' \in BOOLEAN
        /\ Put \/ Arrive \/ GoDown \/ ComeUp \/ Stray \/ Ask

Spec == Init /\ [][Next]_vars

-----------------------------------------------------------------------------
(* The byte next in turn arrives while the link is up and somebody asks    *)
(* for bytes.                                                              *)
Progress ==
  \A b \in Bytes :
    asked /\ waiting # <<>> /\ waiting[1] = b
      ~> Contains(arrived, b) \/ link # "up" \/ ~asked
=============================================================================
