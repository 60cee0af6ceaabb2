------------------------------- MODULE Codec --------------------------------
(***************************************************************************)
(* The codecs of src/src/frames.rs (signals and intents in tape frames),   *)
(* src/src/wire.rs (settlement messages on a stream) and the SelfAcc codec *)
(* of src/src/gossip.rs.  Pure operators.                                  *)
(*                                                                         *)
(* A buffer is a sequence of tokens.  A token is a run of fixed-size       *)
(* fields, a count, or one item of a counted section.  Of a token that was *)
(* cut in the middle bytes are there, and reading it fails.  What may be   *)
(* absent (an Option) is a list of at most one.                            *)
(***************************************************************************)
EXTENDS Lists

Token(x) == [token |-> x]

(* What is left of a token or frame that was cut. *)
Cut == [cut |-> TRUE]

Nothing == <<>>

(* A read of the next token succeeds. *)
Has(buf, p) == p <= Len(buf) /\ buf[p] # Cut

(* All that truncation can leave of a buffer. *)
Cuts(buf) ==
    LET front == {SubSeq(buf, 1, i) : i \in 0 .. Len(buf) - 1}
    IN  front \cup {Append(b, Cut) : b \in front}

(* A counted section. *)
Counted(items) == <<Token(Len(items))>> \o [i \in DOMAIN items |-> Token(items[i])]

(* Reading it: the count, then each item; a short read fails. *)
Section(buf, p) ==
    IF ~ Has(buf, p) THEN [ok |-> FALSE, items |-> <<>>, next |-> p]
    ELSE LET n == buf[p].token
             ok == \A i \in 1 .. n : Has(buf, p + i)
         IN  [ok |-> ok, items |-> IF ok THEN [i \in 1 .. n |-> buf[p + i].token] ELSE <<>>,
              next |-> p + n + 1]

(* Mutant of Trailing: items that are missing are passed over. *)
TrailingLenient(buf, p) ==
    IF ~ Has(buf, p) THEN [ok |-> TRUE, items |-> <<>>, next |-> p]
    ELSE LET there == {i \in 1 .. buf[p].token : Has(buf, p + i)}
         IN  [ok |-> TRUE, items |-> [i \in there |-> buf[p + i].token],
              next |-> p + buf[p].token + 1]

(* A trailing section that old frames do not have. *)
Trailing(buf, p) ==
    IF p <= Len(buf) THEN Section(buf, p) ELSE [ok |-> TRUE, items |-> <<>>, next |-> p]

-----------------------------------------------------------------------------
(* Signals.  network and proof are not sent.  A box move has a tag: 1 with *)
(* and 0 without a commitment.                                             *)

Self == "SELF_NETWORK"

serialize_signal(s) ==
    <<Token(s.head)>> \o Counted(s.links) \o Counted(s.box_moves) \o Counted(s.delta_pi)

deserialize_signal(buf) ==
    LET l == Section(buf, 2)
        m == Trailing(buf, l.next)
        d == Trailing(buf, m.next)
    IN  IF /\ Has(buf, 1) /\ l.ok /\ m.ok /\ d.ok
           /\ \A i \in DOMAIN m.items : m.items[i].tag \in {0, 1}
        THEN <<[head |-> buf[1].token, network |-> Self, links |-> l.items,
                box_moves |-> m.items, delta_pi |-> d.items, proof |-> Nothing]>>
        ELSE Nothing

serialize_intent(i) == <<Token(i)>>

deserialize_intent(buf) == IF Has(buf, 1) THEN <<buf[1].token>> ELSE Nothing

encode_signal_frame(s) == [sigil |-> "ZAP", payload |-> serialize_signal(s)]

encode_intent_frame(i) == [sigil |-> "KET", payload |-> serialize_intent(i)]

(* What the tape reader, or a length check, finds complete in a stream:    *)
(* all before the place where it was cut.                                  *)
Whole(stream) == Chosen(stream, {i \in DOMAIN stream : stream[i] # Cut})

decode_signal_frame(stream) ==
    IF Has(stream, 1) /\ stream[1].sigil = "ZAP" THEN deserialize_signal(stream[1].payload)
    ELSE Nothing

(* What is there of a list of options. *)
Present(s) ==
    LET some == Chosen(s, {i \in DOMAIN s : s[i] # Nothing})
    IN  [i \in DOMAIN some |-> some[i][1]]

decode_signals(stream) ==
    LET c == Whole(stream)
    IN  Present([i \in DOMAIN c |->
           IF c[i].sigil = "ZAP" THEN deserialize_signal(c[i].payload) ELSE Nothing])

(* A CyberFrame of the type ty, when its payload decodes. *)
CyberFrame(ty, body) == [i \in DOMAIN body |-> [type |-> ty, body |-> body[i]]]

(* Mutant of DecodeEvent: only signals are decoded. *)
DecodeEventSignals(f) ==
    IF f.sigil = "ZAP" THEN CyberFrame("Signal", deserialize_signal(f.payload)) ELSE Nothing

DecodeEvent(f) ==
    CASE f.sigil = "ZAP" -> CyberFrame("Signal", deserialize_signal(f.payload))
      [] f.sigil = "KET" -> CyberFrame("Intent", deserialize_intent(f.payload))
      [] OTHER -> Nothing

(* Signals and intents in wire order; other frames and payloads that do    *)
(* not decode are skipped.                                                 *)
decode_events(stream) ==
    LET c == Whole(stream) IN Present([i \in DOMAIN c |-> DecodeEvent(c[i])])

-----------------------------------------------------------------------------
(* Settlement messages.  fixed stands for topic, ids and numbers of fixed  *)
(* size, in the order they are written.                                    *)

header(ty) == <<Token(<<"FSET", 1>>), Token(ty)>>

encode_claim_body(m) == Counted(m.links)

(* seen is written in the order of the set. *)
encode_acc_body(acc) ==
    Counted(acc.sum_m) \o Counted(Ascending(SetToSeq(acc.seen))) \o <<Token(acc.commitment)>>

encode_settle_msg(m) ==
    header(m.kind) \o <<Token(m.fixed)>> \o
    CASE m.kind = "claim" -> encode_claim_body(m)
      [] m.kind = "acc" -> encode_acc_body(m.acc)
      [] m.kind = "receipt" -> <<>>

decode_acc_body(buf, p) ==
    LET sums == Section(buf, p)
        seen == Section(buf, sums.next)
    IN  IF sums.ok /\ seen.ok /\ Has(buf, seen.next)
        THEN <<[sum_m |-> sums.items, seen |-> ToSet(seen.items),
                commitment |-> buf[seen.next].token]>>
        ELSE Nothing

decode_claim_body(buf, p) ==
    LET s == Section(buf, p) IN IF s.ok THEN <<s.items>> ELSE Nothing

(* Magic and version, type, body.  What follows the body is not looked at. *)
decode_settle_msg(buf) ==
    IF ~ (Has(buf, 1) /\ Has(buf, 2) /\ Has(buf, 3)) \/ buf[1].token # <<"FSET", 1>> THEN Nothing
    ELSE CASE buf[2].token = "claim" ->
                LET l == decode_claim_body(buf, 4)
                IN  [i \in DOMAIN l |-> [kind |-> "claim", fixed |-> buf[3].token, links |-> l[i]]]
           [] buf[2].token = "acc" ->
                LET a == decode_acc_body(buf, 4)
                IN  [i \in DOMAIN a |-> [kind |-> "acc", fixed |-> buf[3].token, acc |-> a[i]]]
           [] buf[2].token = "receipt" -> <<[kind |-> "receipt", fixed |-> buf[3].token]>>
           [] OTHER -> Nothing

encode_frame(body) == <<Token(Len(body))>> \o body

(* Mutant of split_frame: a frame is whole only when more follows. *)
split_frame_late(buf) ==
    IF ~ Has(buf, 1) THEN Nothing
    ELSE LET n == buf[1].token
         IN  IF Len(Whole(buf)) <= 1 + n THEN Nothing
             ELSE <<[body |-> SubSeq(buf, 2, n + 1), rest |-> SubSeq(buf, n + 2, Len(buf))]>>

(* The first frame of a buffer and the rest, once it is whole. *)
split_frame(buf) ==
    IF ~ Has(buf, 1) THEN Nothing
    ELSE LET n == buf[1].token
         IN  IF Len(Whole(buf)) < 1 + n THEN Nothing
             ELSE <<[body |-> SubSeq(buf, 2, n + 1), rest |-> SubSeq(buf, n + 2, Len(buf))]>>

(* encode_self_acc and decode_self_acc: the same body under another magic, *)
(* with the lengths checked first.                                         *)
encode_self_acc(fixed, acc) == <<Token("FSC1"), Token(fixed)>> \o encode_acc_body(acc)

decode_self_acc(buf) ==
    IF ~ (Has(buf, 1) /\ Has(buf, 2)) \/ buf[1].token # "FSC1" THEN Nothing
    ELSE LET a == decode_acc_body(buf, 3)
         IN  [i \in DOMAIN a |-> [fixed |-> buf[2].token, acc |-> a[i]]]

(* The loop of handle_inbound over what it has read: frames are split off  *)
(* while there are whole ones, and bodies that do not decode are dropped;  *)
(* the rest waits for the next read.                                       *)
Drained(buf) ==
    LET after[i \in 0 .. Len(buf)] ==
            IF i = 0 THEN [got |-> <<>>, rest |-> buf]
            ELSE LET a == after[i - 1]
                     f == split_frame(a.rest)
                 IN  IF f = Nothing THEN a
                     ELSE [got |-> a.got \o decode_settle_msg(f[1].body), rest |-> f[1].rest]
    IN  after[Len(buf)]

-----------------------------------------------------------------------------
Rebuilt(s) == [s EXCEPT !.network = Self, !.proof = Nothing]

(* A signal comes back as it was, on this network and without its proof.   *)
(* A payload that was cut gives no signal, or the signal without the whole *)
(* of its trailing sections: never one with some of its links, moves or    *)
(* payments (serialize_signal, deserialize_signal).                        *)
SignalWholeOrNone(s) ==
    /\ decode_signal_frame(<<encode_signal_frame(s)>>) = <<Rebuilt(s)>>
    /\ \A c \in Cuts(serialize_signal(s)) :
          deserialize_signal(c) \in
             {Nothing, <<[Rebuilt(s) EXCEPT !.box_moves = <<>>, !.delta_pi = <<>>]>>,
              <<[Rebuilt(s) EXCEPT !.delta_pi = <<>>]>>}

(* Replaying a log gives, in order, every signal and intent of the frames  *)
(* written before the place where the log was torn, whatever other frames  *)
(* and undecodable payloads lie between, and both decoders agree on the    *)
(* signals (decode_events, decode_signals).                                *)
LogReplays(log) ==
    \A k \in 0 .. Len(log), torn \in {<<>>, <<Cut>>} :
        LET whole == SubSeq(log, 1, k)
            events == decode_events(whole \o torn)
            good == Chosen(whole, {i \in DOMAIN whole : DecodeEvent(whole[i]) # Nothing})
            signals == Chosen(events, {i \in DOMAIN events : events[i].type = "Signal"})
        IN  /\ \A i \in DOMAIN whole : whole[i].sigil = "KET" =>
                  [type |-> "Intent", body |-> whole[i].payload[1].token] \in ToSet(events)
            /\ Len(events) = Len(good)
            /\ \A i \in DOMAIN good : DecodeEvent(good[i]) = <<events[i]>>
            /\ decode_signals(whole \o torn) = [i \in DOMAIN signals |-> signals[i].body]

(* The messages of a stream that is cut anywhere arrive whole and in       *)
(* order, up to the first that is not complete, and the others with the    *)
(* bytes that come later; no cut message decodes to another one            *)
(* (encode_frame, split_frame, handle_inbound, encode_settle_msg,          *)
(* decode_settle_msg, encode_self_acc, decode_self_acc).                   *)
StreamExact(ms) ==
    LET frame == [i \in DOMAIN ms |-> encode_frame(encode_settle_msg(ms[i]))]
        stream == FlattenSeq(frame)
    IN  /\ Drained(stream).got = ms
        /\ \A c \in Cuts(stream) :
              LET read == Len(Whole(c))
                  fits == {k \in 0 .. Len(ms) : Len(FlattenSeq(SubSeq(frame, 1, k))) <= read}
                  first == Drained(c)
                  later == Drained(Whole(first.rest) \o SubSeq(stream, read + 1, Len(stream)))
              IN  /\ first.got = SubSeq(ms, 1, CHOOSE k \in fits : \A j \in fits : j <= k)
                  /\ first.got \o later.got = ms
        /\ \A i \in DOMAIN ms :
              /\ \A c \in Cuts(encode_settle_msg(ms[i])) : decode_settle_msg(c) = Nothing
              /\ ms[i].kind = "acc" =>
                    LET b == encode_self_acc(ms[i].fixed, ms[i].acc)
                    IN  /\ decode_self_acc(b) = <<[fixed |-> ms[i].fixed, acc |-> ms[i].acc]>>
                        /\ \A c \in Cuts(b) : decode_self_acc(c) = Nothing
=============================================================================
