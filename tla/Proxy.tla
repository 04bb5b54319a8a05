-------------------------------- MODULE Proxy --------------------------------
(***************************************************************************)
(* One connection to the egress proxy (crates/lm-provision/src/egress/     *)
(* proxy.rs, handle; sni.rs): the CONNECT head, the allowlist, the dial,   *)
(* the first handshake message put together from records, and the tunnel.  *)
(*                                                                         *)
(* TCP cuts what the client wrote wherever it likes, the client may stop   *)
(* writing or close anywhere, and two deadlines and two caps apply.  The   *)
(* wire is a sequence of bytes in a world where a record has two bytes of  *)
(* header and so has a handshake message, and one byte says whom a hello   *)
(* names; what a client means to send is a structure the code never sees.  *)
(***************************************************************************)
EXTENDS Integers, Sequences, SequencesExt

CONSTANTS
  Talks,      \* what a client may have to say
  HeadRead,   \* bytes to a read of the head
  HeadCap,    \* and the most it may have without a terminator
  PeekCap     \* SNI_PEEK_MAX_BYTES

VARIABLES
  talk,       \* what this client says
  stage,      \* where the connection stands
  unread,     \* the bytes still to be read from the client
  inHand,     \* the bytes read and not yet passed on
  consumed,   \* how many of them are records already taken apart
  handshake,  \* the bodies of those
  upstream,   \* the bytes the dialled host has received
  fate,       \* how it ended
  stalled     \* a deadline passed, or a socket failed

proxyVars == <<talk, stage, unread, inHand, consumed, handshake, upstream, fate,
               stalled>>

CR == 10
LF == 11
Handshake == 22
Other == 23
Text == 0

NoName == 42

Less(a, b) == IF a < b THEN a ELSE b

-----------------------------------------------------------------------------
(* The client: the head, and then plain bytes or a hello put into records   *)

Bytes(n) == [i \in 1 .. n |-> Text]
HeadOf(t) == Bytes(t.head) \o <<CR, LF, CR, LF>>

\* A hello's bytes, and what may come after it in its last record.
HelloByte(t, j) == CASE j = 1 -> 1
                     [] j = 2 -> t.size
                     [] j = 2 + t.size -> t.name
                     [] OTHER -> Text

\* How far the first i records carry the hello, and how many bytes they are.
Carried(t, i) == IF i = 0 THEN 0 ELSE t.cuts[i]
Wire(t, i) == 2 * i + Carried(t, i)

\* `t.alien` is the record that is not a handshake record.
RecordByte(t, i, j) ==
  CASE j = 1 -> IF t.alien = i THEN Other ELSE Handshake
    [] j = 2 -> Carried(t, i) - Carried(t, i - 1)
    [] OTHER -> HelloByte(t, Carried(t, i - 1) + j - 2)

RecordAt(t, n) ==
  CHOOSE i \in DOMAIN t.cuts : Wire(t, i - 1) < n /\ n <= Wire(t, i)

TunnelOf(t) ==
  LET records == Wire(t, Len(t.cuts)) IN
  [n \in 1 .. records + t.after |->
     IF n > records THEN Text
     ELSE RecordByte(t, RecordAt(t, n), n - Wire(t, RecordAt(t, n) - 1))]

\* What it writes before it closes its half.
WireOf(t) == LET all == HeadOf(t) \o TunnelOf(t) IN
             SubSeq(all, 1, Len(all) - t.missing)

ASSUME ProxyAssumption ==
  /\ {HeadRead, HeadCap, PeekCap} \subseteq Nat
  /\ \A t \in Talks :
       /\ t.head \in Nat /\ t.size \in Nat \ {0} /\ t.alien \in Nat /\ t.after \in Nat
       /\ t.cuts \in Seq(Nat)
       /\ \A i, j \in DOMAIN t.cuts : i <= j => t.cuts[i] <= t.cuts[j]
       /\ t.missing \in 0 .. t.head + 4 + Len(TunnelOf(t))
       /\ {t.connect, t.allowed, t.port} \subseteq BOOLEAN

ProxyInit ==
  /\ talk \in Talks
  /\ stage = "head" /\ unread = WireOf(talk)
  /\ inHand = <<>> /\ consumed = 0 /\ handshake = <<>>
  /\ upstream = <<>> /\ fate = "none" /\ stalled = FALSE

\* A read brings a byte or more, up to what was asked for.
Read(want, n) ==
  /\ n \in 1 .. Less(want, Len(unread))
  /\ inHand' = inHand \o SubSeq(unread, 1, n)
  /\ unread' = SubSeq(unread, n + 1, Len(unread))

On(to) == stage' = to /\ UNCHANGED fate
Drop(why) == stage' = "over" /\ fate' = why

\* The client has closed, or a deadline passed, or the socket failed.
Closed == unread = <<>> /\ UNCHANGED stalled
TooSlow == stalled' = TRUE

Peeking == UNCHANGED <<talk, consumed, handshake, upstream>>
Unmoved == UNCHANGED <<unread, inHand>> /\ Peeking

-----------------------------------------------------------------------------
(* read_head                                                                *)

\* The cursor is backed up three bytes, for a terminator cut in two.
ScanFrom(had) == IF had < 3 THEN 0 ELSE had - 3

Terminators(had, bytes) ==
  {i \in ScanFrom(had) + 1 .. Len(bytes) - 3 :
     SubSeq(bytes, i, i + 3) = <<CR, LF, CR, LF>>}

ReadHead ==
  /\ stage = "head"
  /\ \E n \in 1 .. HeadRead :
       LET all == inHand \o SubSeq(unread, 1, n)
           found == Terminators(Len(inHand), all)
       IN /\ n <= Len(unread)
          /\ unread' = SubSeq(unread, n + 1, Len(unread))
          /\ inHand' = IF found = {} THEN all
                       ELSE SubSeq(all, (CHOOSE i \in found : \A j \in found : i <= j) + 4,
                                   Len(all))
          /\ CASE found # {} -> On("asked")
               [] found = {} /\ Len(all) > HeadCap -> Drop("dropped")
               [] OTHER -> On("head")
  /\ Peeking /\ UNCHANGED stalled

HeadEnds == /\ stage = "head" /\ (Closed \/ TooSlow)
            /\ Drop("dropped")
            /\ Unmoved

-----------------------------------------------------------------------------
(* The refusals, in their order, and the dial                               *)

Refusal == CASE ~talk.connect -> "405"
             [] talk.connect /\ ~talk.allowed -> "403"
             [] talk.connect /\ talk.allowed /\ ~talk.port -> "400"
             [] OTHER -> "none"

Answer ==
  /\ stage = "asked"
  /\ IF Refusal # "none" THEN Drop(Refusal) ELSE On("dial")
  /\ Unmoved /\ UNCHANGED stalled

\* The host does not answer; it does, and the client is gone; or all is well.
Dial ==
  /\ stage = "dial"
  /\ \/ Drop("502") /\ UNCHANGED stalled
     \/ Drop("dropped") /\ TooSlow
     \/ On("first") /\ UNCHANGED stalled
  /\ Unmoved

-----------------------------------------------------------------------------
(* peek_client_hello                                                        *)

\* How many bytes have to be in hand: never more than the record needs.
Target == CASE stage = "first" -> 1
            [] stage = "header" -> consumed + 2
            [] stage = "body" -> consumed + 2 + inHand[consumed + 2]
            [] OTHER -> 0

Wanting == Len(inHand) < Target
Filled(at) == stage = at /\ ~Wanting

Fill == /\ Wanting
        /\ \E n \in 1 .. Target - Len(inHand) : Read(Target - Len(inHand), n)
        /\ Peeking /\ UNCHANGED <<stage, fate, stalled>>

\* A client that closes before its first byte has nothing to show; later, it has.
FillEnds ==
  /\ Wanting
  /\ \/ Closed /\ IF stage = "first" THEN On("forward") ELSE Drop("refused")
     \/ TooSlow /\ Drop("refused")
  /\ Unmoved

First ==
  /\ Filled("first")
  /\ On(IF inHand[1] = Handshake THEN "header" ELSE "forward")
  /\ Unmoved /\ UNCHANGED stalled

Header ==
  /\ Filled("header")
  /\ IF /\ inHand[consumed + 1] = Handshake
        /\ consumed + 2 + inHand[consumed + 2] <= PeekCap
       THEN On("body") ELSE Drop("refused")
  /\ Unmoved /\ UNCHANGED stalled

\* extract_sni, on the message put together: whom the hello names.
Names(message) == message[Len(message)]

\* Mutant: a hello is read off the first record there is.
WholeByRecord(bodies) == Len(bodies) >= 2

\* The message's own header says when it is whole.
Whole(bodies) == Len(bodies) >= 2 /\ Len(bodies) >= 2 + bodies[2]

Body ==
  /\ Filled("body")
  /\ LET bodies == handshake \o SubSeq(inHand, consumed + 3, Target)
         message == SubSeq(bodies, 1, Less(2 + bodies[2], Len(bodies)))
         over == Len(bodies) >= 2 /\ 2 + bodies[2] + 2 > PeekCap
     IN /\ handshake' = bodies
        /\ CASE over -> Drop("refused")
             [] ~over /\ Whole(bodies) ->
                  IF Names(message) \in {talk.host, NoName}
                    THEN On("forward") ELSE Drop("refused")
             [] OTHER -> IF Target >= PeekCap THEN Drop("refused") ELSE On("header")
  /\ consumed' = Target
  /\ UNCHANGED <<talk, unread, inHand, upstream, stalled>>

-----------------------------------------------------------------------------
(* The tunnel                                                               *)

\* What the peek read goes first, as it came.
Forward ==
  /\ stage = "forward"
  /\ \/ upstream' = upstream \o inHand /\ On("tunnel") /\ UNCHANGED stalled
     \/ Drop("dropped") /\ TooSlow /\ UNCHANGED upstream
  /\ inHand' = <<>>
  /\ UNCHANGED <<talk, unread, consumed, handshake>>

Carry ==
  /\ stage = "tunnel"
  /\ \E n \in 1 .. Len(unread) :
       /\ upstream' = upstream \o SubSeq(unread, 1, n)
       /\ unread' = SubSeq(unread, n + 1, Len(unread))
  /\ UNCHANGED <<talk, stage, inHand, consumed, handshake, fate, stalled>>

\* Both halves have come to their end, or one failed.
TunnelEnds ==
  /\ stage = "tunnel"
  /\ Closed \/ TooSlow
  /\ Drop("tunnelled")
  /\ Unmoved

ProxyOver == stage = "over" /\ UNCHANGED proxyVars

Serving == \/ ReadHead \/ HeadEnds \/ Answer \/ Dial \/ Fill \/ FillEnds \/ First
           \/ Header \/ Body \/ Forward

ProxyNext == Serving \/ Carry \/ TunnelEnds \/ ProxyOver

\* The task is polled and its deadlines pass; a dial returns.
ProxyFairness == WF_proxyVars(Serving)

ProxySpec == ProxyInit /\ [][ProxyNext]_proxyVars /\ ProxyFairness

-----------------------------------------------------------------------------
(* Properties                                                               *)

ProxyTypeOK ==
  /\ talk \in Talks
  /\ stage \in {"head", "asked", "dial", "first", "header", "body", "forward",
                "tunnel", "over"}
  /\ fate \in {"none", "dropped", "405", "403", "400", "502", "refused", "tunnelled"}
  /\ (fate # "none") = (stage = "over")
  /\ stage = "body" => consumed + 2 <= Len(inHand)
  /\ stalled \in BOOLEAN

\* What the documentation at the head of proxy.rs promises for what a client
\* meant to say, its own account of it and not the bytes: how many records the
\* whole hello takes, and whether they were written, in order and within the cap.
Carrying(t) == {k \in DOMAIN t.cuts : Carried(t, k) >= 2 + t.size}

Inspected(t) ==
  /\ 2 + t.size + 2 <= PeekCap
  /\ \E k \in Carrying(t) :
       /\ Wire(t, k) <= PeekCap
       /\ t.missing <= Len(TunnelOf(t)) - Wire(t, k)
       /\ t.alien \notin 1 .. k
       /\ \A i \in 1 .. k - 1 : i \notin Carrying(t)

Promised(t) ==
  LET written == Len(TunnelOf(t)) - t.missing IN
  CASE written < 0 -> "dropped"
    [] written >= 0 /\ ~t.connect -> "405"
    [] written >= 0 /\ t.connect /\ ~t.allowed -> "403"
    [] written >= 0 /\ t.connect /\ t.allowed /\ ~t.port -> "400"
    [] OTHER ->
         IF \/ written = 0 \/ t.cuts = <<>>
            \/ t.alien = 1
            \/ Inspected(t) /\ t.name \in {t.host, NoName}
         THEN "tunnelled" ELSE "refused"

\* What becomes of a connection is decided by what the client wrote, never by
\* how TCP cut it: a terminator or a hello in two pieces, a hello in several
\* records, bytes that came with the head.  A tunnel carries all the client
\* wrote after its head, in order.  Short of that there is only the deadline, a
\* host that does not answer, and a head past its cap, which may be read whole.
BytesDecide ==
  /\ IsPrefix(upstream, TunnelOf(talk))
  /\ upstream # <<>> => Promised(talk) = "tunnelled"
  /\ stage = "over" /\ ~stalled =>
       \/ fate = Promised(talk)
       \/ fate = "502" /\ Promised(talk) \in {"tunnelled", "refused"}
       \/ fate = "dropped" /\ talk.head + 4 > HeadCap
  /\ fate = "tunnelled" /\ ~stalled =>
       Len(upstream) = Len(TunnelOf(talk)) - talk.missing

\* Every connection comes to its end or to its tunnel: a client that dribbles
\* its head or its hello holds no task for longer than the deadlines.
ConnectionsSettle == <>(stage \in {"tunnel", "over"})
=============================================================================
