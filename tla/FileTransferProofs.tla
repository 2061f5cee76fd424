------------------------- MODULE FileTransferProofs --------------------------
(*****************************************************************************)
(* Proofs about FileTransfer for any number of files and attempts, any       *)
(* sizes, quota and number of slots.                                         *)
(*                                                                           *)
(* RecordBacked and KeptUntilStored are inductive once the two sides of an   *)
(* attempt are known to agree (Agreed): what the sender has still to read    *)
(* tells how far the receiver is, and only after the record is there a       *)
(* second "accept".                                                          *)
(*                                                                           *)
(* StorageBounded needs SpaceInv: at most Slots attempts hold a permit, so   *)
(* at most Slots - 1 others are under way when check_quota admits one, and   *)
(* their sizes are bounded.                                                  *)
(*****************************************************************************)
EXTENDS FileTransfer, FiniteSetTheorems, TLAPS

(* The steps of the task of the sender ...                                   *)
OutPhase == {"unused", "signed", "offered", "sending", "written", "confirmed", "over"}
(* ... and of the receiver of an attempt.                                    *)
InPhase == {"none", "slot", "denying", "accepting", "receiving", "hashed", "renamed", "stored",
            "over"}

(* One value for each attempt.                                               *)
Shape(F) == DOMAIN F = File /\ \A f \in File : DOMAIN F[f] = Try(f)

(* The type of the state.                                                    *)
FileTypeOK ==
  /\ Shape(out) /\ Shape(in) /\ Shape(resp)
  /\ \A f \in File : \A k \in Try(f) : out[f][k] \in OutPhase /\ in[f][k] \in InPhase
  /\ part \subseteq Attempt /\ final \subseteq Attempt
  /\ stored \subseteq Attempt /\ sent \subseteq Attempt
  /\ outbox \subseteq File /\ dialing \subseteq File /\ queued \subseteq File

(* The two sides of one attempt: what the sender has yet to read tells how   *)
(* far the receiver has come, and a second "accept" is a record.             *)
Agreed(f, k) ==
  LET o == out[f][k]
      i == in[f][k]
      r == resp[f][k]
      record == <<f, k>> \in stored
  IN
  /\ i \in {"none", "slot", "accepting"} =>
       o \notin {"sending", "written", "confirmed"} /\ r = <<>>
  /\ o = "unused" => i = "none"
  /\ o \in {"signed", "offered"} =>
       /\ i \in {"none", "slot", "denying", "accepting", "receiving", "over"} /\ ~record
       /\ i = "receiving" => r = <<"accept">>
       /\ i = "denying" => r \in {<<>>, <<"accept">>}
       /\ r \in {<<>>, <<"accept">>, <<"deny">>, <<"accept", "deny">>}
  /\ o \in {"sending", "written"} =>
       /\ i # "over" => r = <<>>
       /\ r \in {<<>>, <<"deny">>, <<"accept">>}
       /\ r = <<"accept">> => record
  /\ o = "confirmed" => record
  /\ i \notin {"stored", "over"} => ~record
  /\ i \in {"hashed", "renamed", "stored"} => o \notin {"signed", "offered", "sending"}
  /\ i = "stored" => record
  /\ i = "renamed" => <<f, k>> \in final

(* Accepted and not recorded yet.                                            *)
Underway ==
  {a \in Attempt : in[a[1]][a[2]] \in {"accepting", "receiving", "hashed", "renamed"}}

(* The permits of the semaphore are not exceeded, and the files recorded and *)
(* under way exceed the quota by what was admitted at the same time as the   *)
(* last of them: Slots - 1 files at most.                                    *)
SpaceInv ==
  /\ IsFiniteSet(Holding) /\ Cardinality(Holding) =< Slots
  /\ IsFiniteSet(stored)
  /\ \A a \in stored \cup Holding : Size[a[1]] =< MaxFileSize
  /\ Cardinality(Bytes(stored \cup Underway)) =< Quota + (Slots - 1) * MaxFileSize

(* The inductive invariant.                                                  *)
FileInv ==
  /\ FileTypeOK
  /\ \A f \in File : \A k \in Try(f) : Agreed(f, k)
  /\ RecordBacked
  /\ KeptUntilStored
  /\ SpaceInv

-------------------------------------------------------------------------------
(* Attempts as pairs.                                                        *)
LEMMA AttemptPairs ==
  /\ \A f \in File : \A k \in Try(f) : <<f, k>> \in Attempt
  /\ \A a \in Attempt : a[1] \in File /\ a[2] \in Try(a[1]) /\ a = <<a[1], a[2]>>
BY DEF Attempt

(* Changing the value of one attempt leaves the others alone.                *)
LEMMA Update ==
  ASSUME NEW F, Shape(F), NEW f \in File, NEW k \in Try(f), NEW v,
         NEW G, G = [F EXCEPT ![f][k] = v]
  PROVE  /\ Shape(G) /\ G[f][k] = v
         /\ \A g \in File : \A j \in Try(g) : <<g, j>> # <<f, k>> => G[g][j] = F[g][j]
<1>1. DOMAIN G = File /\ \A g \in File : G[g] = IF g = f THEN [F[f] EXCEPT ![k] = v] ELSE F[g]
  BY DEF Shape
<1> QED
  BY <1>1 DEF Shape

(* A step of the attempt k at f: nothing of another attempt changes.         *)
Local(f, k) ==
  /\ Shape(out)' /\ Shape(in)' /\ Shape(resp)'
  /\ out'[f][k] \in OutPhase /\ in'[f][k] \in InPhase
  /\ \A g \in File : \A j \in Try(g) : <<g, j>> # <<f, k>> =>
       /\ out'[g][j] = out[g][j] /\ in'[g][j] = in[g][j] /\ resp'[g][j] = resp[g][j]
       /\ <<g, j>> \in stored' <=> <<g, j>> \in stored
       /\ <<g, j>> \in final' <=> <<g, j>> \in final

(* A step of the sender of an attempt.                                       *)
LEMMA LocalSender ==
  ASSUME FileTypeOK, NEW f \in File, NEW k \in Try(f), NEW ph \in OutPhase,
         SetOut(f, k, ph), UNCHANGED <<in, stored, final>>,
         resp' = resp \/ \E r : resp' = [resp EXCEPT ![f][k] = r]
  PROVE  Local(f, k) /\ out'[f][k] = ph
<1>1. /\ Shape(out') /\ out'[f][k] = ph
      /\ \A g \in File : \A j \in Try(g) : <<g, j>> # <<f, k>> => out'[g][j] = out[g][j]
  <2>1. /\ DOMAIN out' = File
        /\ \A g \in File : out'[g] = IF g = f THEN [out[f] EXCEPT ![k] = ph] ELSE out[g]
    BY DEF SetOut, FileTypeOK, Shape
  <2> QED
    BY <2>1 DEF FileTypeOK, Shape
<1>2. /\ Shape(resp')
      /\ \A g \in File : \A j \in Try(g) : <<g, j>> # <<f, k>> => resp'[g][j] = resp[g][j]
  BY Update DEF FileTypeOK
<1> QED
  BY <1>1, <1>2 DEF Local, FileTypeOK, Shape

(* A step of the receiver of an attempt.                                     *)
LEMMA LocalReceiver ==
  ASSUME FileTypeOK, NEW f \in File, NEW k \in Try(f), NEW ph \in InPhase,
         SetIn(f, k, ph), UNCHANGED out,
         resp' = resp \/ \E r : resp' = [resp EXCEPT ![f][k] = r],
         stored' = stored \/ stored' = stored \cup {<<f, k>>},
         final' \in {final, final \cup {<<f, k>>}, final \ {<<f, k>>}}
  PROVE  Local(f, k) /\ in'[f][k] = ph
<1>1. /\ Shape(in') /\ in'[f][k] = ph
      /\ \A g \in File : \A j \in Try(g) : <<g, j>> # <<f, k>> => in'[g][j] = in[g][j]
  <2>1. /\ DOMAIN in' = File
        /\ \A g \in File : in'[g] = IF g = f THEN [in[f] EXCEPT ![k] = ph] ELSE in[g]
    BY DEF SetIn, FileTypeOK, Shape
  <2> QED
    BY <2>1 DEF FileTypeOK, Shape
<1>2. /\ Shape(resp')
      /\ \A g \in File : \A j \in Try(g) : <<g, j>> # <<f, k>> => resp'[g][j] = resp[g][j]
  BY Update DEF FileTypeOK
<1>3. \A g \in File : \A j \in Try(g) : <<g, j>> # <<f, k>> =>
        /\ <<g, j>> \in stored' <=> <<g, j>> \in stored
        /\ <<g, j>> \in final' <=> <<g, j>> \in final
  OBVIOUS
<1> QED
  BY <1>1, <1>2, <1>3 DEF Local, FileTypeOK, Shape

(* So a step of one attempt needs a look at that attempt only.               *)
LEMMA LocalAgreed ==
  ASSUME FileTypeOK, \A g \in File : \A j \in Try(g) : Agreed(g, j),
         NEW f \in File, NEW k \in Try(f), Local(f, k), Agreed(f, k)'
  PROVE  \A g \in File : \A j \in Try(g) : Agreed(g, j)'
<1> SUFFICES ASSUME NEW g \in File, NEW j \in Try(g), <<g, j>> # <<f, k>>
             PROVE  Agreed(g, j)'
  OBVIOUS
<1> QED
  BY DEF Local, Agreed

(* What the steps of one attempt do to the sets of attempts and files.       *)
SetsKept ==
  /\ part' \subseteq Attempt /\ final' \subseteq Attempt
  /\ stored' \subseteq Attempt /\ sent' \subseteq Attempt
  /\ outbox' \subseteq File /\ dialing' \subseteq File /\ queued' \subseteq File

(* The two sides of every attempt agree.                                     *)
AgreedInv == FileTypeOK /\ \A f \in File : \A k \in Try(f) : Agreed(f, k)

(* A step of one attempt after which its two sides agree.                    *)
LEMMA LocalInv ==
  ASSUME AgreedInv, NEW f \in File, NEW k \in Try(f), Local(f, k), Agreed(f, k)', SetsKept
  PROVE  AgreedInv'
<1>1. FileTypeOK'
  <2>1. ASSUME NEW g \in File, NEW j \in Try(g)
        PROVE  out'[g][j] \in OutPhase /\ in'[g][j] \in InPhase
    <3>1. CASE g = f /\ j = k
      BY <3>1 DEF Local
    <3>2. CASE ~(g = f /\ j = k)
      <4>1. <<g, j>> # <<f, k>>
        BY <3>2
      <4>2. out'[g][j] = out[g][j] /\ in'[g][j] = in[g][j]
        BY <4>1 DEF Local
      <4> QED
        BY <4>2 DEF AgreedInv, FileTypeOK
    <3> QED
      BY <3>1, <3>2
  <2>2. Shape(out)' /\ Shape(in)' /\ Shape(resp)'
    BY DEF Local
  <2> QED
    BY <2>1, <2>2 DEF FileTypeOK, SetsKept
<1> QED
  BY <1>1, LocalAgreed DEF AgreedInv

(* The sender's steps keep the two sides of an attempt agreed.               *)
LEMMA SenderAgreed ==
  ASSUME AgreedInv, NEW f \in File, NEW k \in Try(f), SenderStep(f, k)
  PROVE  AgreedInv'
<1>0. FileTypeOK /\ Shape(resp) /\ Agreed(f, k) /\ <<f, k>> \in Attempt
  BY AttemptPairs DEF AgreedInv, FileTypeOK
<1>1. CASE ReadAccept(f, k)
  <2>1. /\ out[f][k] \in {"signed", "offered"} /\ SetOut(f, k, "sending")
        /\ resp[f][k] # <<>> /\ Head(resp[f][k]) = "accept"
        /\ resp' = [resp EXCEPT ![f][k] = Tail(resp[f][k])]
        /\ UNCHANGED <<in, stored, final>> /\ SetsKept
    BY <1>0, <1>1 DEF ReadAccept, SetsKept, FileTypeOK
  <2>2. Local(f, k) /\ out'[f][k] = "sending"
    BY <1>0, <2>1, LocalSender DEF OutPhase
  <2>3. resp'[f][k] = Tail(resp[f][k])
    BY <1>0, <2>1 DEF Shape
  <2>4. \/ resp[f][k] = <<"accept">> /\ resp'[f][k] = <<>>
        \/ resp[f][k] = <<"accept", "deny">> /\ resp'[f][k] = <<"deny">>
    <3>1. resp[f][k] \in {<<"accept">>, <<"deny">>, <<"accept", "deny">>}
      BY <1>0, <2>1 DEF Agreed
    <3>2. /\ Head(<<"deny">>) # "accept"
          /\ Tail(<<"accept">>) = <<>>
          /\ Tail(<<"accept", "deny">>) = <<"deny">>
      OBVIOUS
    <3> QED
      BY <2>1, <2>3, <3>1, <3>2
  <2>5. Agreed(f, k)'
    BY <1>0, <2>1, <2>2, <2>4 DEF Agreed, FileTypeOK, InPhase
  <2> QED
    BY <2>1, <2>2, <2>5, LocalInv
<1>2. CASE WriteAll(f, k)
  <2>1. /\ out[f][k] = "sending" /\ SetOut(f, k, "written")
        /\ UNCHANGED <<in, resp, stored, final>> /\ SetsKept
    BY <1>0, <1>2 DEF WriteAll, SetsKept, FileTypeOK
  <2>2. Local(f, k) /\ out'[f][k] = "written"
    BY <1>0, <2>1, LocalSender DEF OutPhase
  <2>3. Agreed(f, k)'
    BY <1>0, <2>1, <2>2 DEF Agreed
  <2> QED
    BY <2>1, <2>2, <2>3, LocalInv
<1>3. CASE ReadAck(f, k)
  <2>1. /\ out[f][k] = "written" /\ SetOut(f, k, "confirmed") /\ resp[f][k] = <<"accept">>
        /\ UNCHANGED <<in, resp, stored, final>> /\ SetsKept
    BY <1>0, <1>3 DEF ReadAck, SetsKept, FileTypeOK
  <2>2. Local(f, k) /\ out'[f][k] = "confirmed"
    BY <1>0, <2>1, LocalSender DEF OutPhase
  <2>3. in[f][k] = "over" /\ <<f, k>> \in stored
    BY <1>0, <2>1 DEF Agreed
  <2>4. Agreed(f, k)'
    BY <1>0, <2>1, <2>2, <2>3 DEF Agreed
  <2> QED
    BY <2>1, <2>2, <2>4, LocalInv
<1>4. CASE RemoveOutbox(f, k) \/ SendFails(f, k)
  <2>1. /\ out[f][k] # "unused" /\ SetOut(f, k, "over")
        /\ resp' = [resp EXCEPT ![f][k] = <<>>]
        /\ UNCHANGED <<in, stored, final>> /\ SetsKept
    BY <1>0, <1>4 DEF RemoveOutbox, SendFails, EndOut, Active, SetsKept, FileTypeOK
  <2>2. Local(f, k) /\ out'[f][k] = "over"
    BY <1>0, <2>1, LocalSender DEF OutPhase
  <2>3. resp'[f][k] = <<>>
    BY <1>0, <2>1 DEF Shape
  <2>4. Agreed(f, k)'
    BY <1>0, <2>1, <2>2, <2>3 DEF Agreed
  <2> QED
    BY <2>1, <2>2, <2>4, LocalInv
<1> QED
  BY <1>1, <1>2, <1>3, <1>4 DEF SenderStep

(* Writing one more byte.                                                    *)
LEMMA PairOf == ASSUME NEW S, NEW s \in Seq(S), Len(s) = 2 PROVE s = <<s[1], s[2]>>
OBVIOUS

(* The answers a receiver can write.                                         *)
LEMMA Bytes1 ==
  /\ Append(<<>>, "accept") = <<"accept">> /\ Append(<<>>, "deny") = <<"deny">>
  /\ Append(<<"accept">>, "deny") = <<"accept", "deny">>
<1>1. ASSUME NEW s, s = Append(<<"accept">>, "deny") PROVE s = <<"accept", "deny">>
  <2>1. s \in Seq({"accept", "deny"}) /\ Len(s) = 2 /\ s[1] = "accept" /\ s[2] = "deny"
    BY <1>1
  <2> QED
    BY <2>1, PairOf
<1>2. Append(<<>>, "accept") = <<"accept">> /\ Append(<<>>, "deny") = <<"deny">>
  OBVIOUS
<1> QED
  BY <1>1, <1>2

(* They go to the stream of the attempt, as long as the sender is there.     *)
LEMMA WriteByte ==
  ASSUME FileTypeOK, NEW f \in File, NEW k \in Try(f), NEW b, NEW ph, Write(f, k, b, ph)
  PROVE  /\ SetIn(f, k, ph)
         /\ resp' = resp \/ \E r : resp' = [resp EXCEPT ![f][k] = r]
         /\ out[f][k] = "over" => resp'[f][k] = resp[f][k]
         /\ out[f][k] # "over" => resp'[f][k] = Append(resp[f][k], b)
BY DEF Write, FileTypeOK, Shape

(* The receiver's steps keep the two sides of an attempt agreed.             *)
LEMMA ReceiverAgreed ==
  ASSUME AgreedInv, NEW f \in File, NEW k \in Try(f), ReceiverStep(f, k)
  PROVE  AgreedInv'
<1>0. /\ FileTypeOK /\ Agreed(f, k) /\ <<f, k>> \in Attempt
      /\ out[f][k] \in OutPhase
  BY AttemptPairs DEF AgreedInv, FileTypeOK
<1>k. ASSUME UNCHANGED <<outbox, dialing, sent, queued>>,
             part' \in {part, part \cup {<<f, k>>}, part \ {<<f, k>>}},
             final' \in {final, final \cup {<<f, k>>}, final \ {<<f, k>>}},
             stored' \in {stored, stored \cup {<<f, k>>}}
      PROVE  SetsKept
  BY <1>0, <1>k DEF SetsKept, FileTypeOK
<1>d. ASSUME in[f][k] \in {"slot", "receiving", "hashed", "renamed"},
             Deny(f, k), UNCHANGED <<out, stored, resp>>, SetsKept,
             final' \in {final, final \ {<<f, k>>}}
      PROVE  AgreedInv'
  <2>1. SetIn(f, k, "denying")
    BY <1>d DEF Deny
  <2>2. Local(f, k) /\ in'[f][k] = "denying"
    BY <1>0, <1>d, <2>1, LocalReceiver DEF InPhase
  <2>3. Agreed(f, k)'
    BY <1>0, <1>d, <2>2 DEF Agreed
  <2> QED
    BY <1>d, <2>2, <2>3, LocalInv
<1>w. ASSUME in[f][k] \in {"none", "denying"}, out[f][k] # "unused",
             Write(f, k, "deny", "over"), UNCHANGED <<out, stored, final>>, SetsKept
      PROVE  AgreedInv'
  <2>1. /\ SetIn(f, k, "over")
        /\ resp' = resp \/ \E r : resp' = [resp EXCEPT ![f][k] = r]
        /\ out[f][k] # "over" => resp'[f][k] = Append(resp[f][k], "deny")
    BY <1>0, <1>w, WriteByte
  <2>2. Local(f, k) /\ in'[f][k] = "over"
    BY <1>0, <1>w, <2>1, LocalReceiver DEF InPhase
  <2>3. out[f][k] \in {"signed", "offered"} => resp[f][k] \in {<<>>, <<"accept">>}
    BY <1>0, <1>w DEF Agreed
  <2>4. out[f][k] \in {"sending", "written"} => resp[f][k] = <<>>
    BY <1>0, <1>w DEF Agreed
  <2>5. /\ out[f][k] \in {"signed", "offered"} =>
             resp'[f][k] \in {<<"deny">>, <<"accept", "deny">>}
        /\ out[f][k] \in {"sending", "written"} => resp'[f][k] = <<"deny">>
    BY <2>1, <2>3, <2>4, Bytes1
  <2>6. Agreed(f, k)'
    <3>1. <<"deny">> # <<"accept">>
      OBVIOUS
    <3> QED
      BY <1>0, <1>w, <2>2, <2>5, <3>1 DEF Agreed
  <2> QED
    BY <1>w, <2>2, <2>6, LocalInv
<1>u. in[f][k] # "none" => out[f][k] # "unused"
  BY <1>0 DEF Agreed
<1>1. CASE AcceptStream(f, k)
  <2>1. /\ in[f][k] = "none" /\ out[f][k] \notin {"unused", "over"}
        /\ UNCHANGED <<out, stored, final, part, outbox, dialing, sent, queued>>
        /\ \/ SetIn(f, k, "slot") /\ UNCHANGED resp
           \/ Write(f, k, "deny", "over")
    BY <1>1 DEF AcceptStream, Active
  <2>2. CASE SetIn(f, k, "slot") /\ UNCHANGED resp
    <3>1. Local(f, k) /\ in'[f][k] = "slot"
      BY <1>0, <2>1, <2>2, LocalReceiver DEF InPhase
    <3>2. Agreed(f, k)'
      BY <1>0, <2>1, <2>2, <3>1 DEF Agreed
    <3> QED
      BY <1>k, <2>1, <3>1, <3>2, LocalInv
  <2> QED
    BY <1>w, <1>k, <2>1, <2>2
<1>2. CASE ReadOffer(f, k)
  <2>1. /\ in[f][k] = "slot" /\ out[f][k] \in {"signed", "offered"}
        /\ UNCHANGED <<out, resp, part, stored, final, outbox, dialing, sent, queued>>
        /\ SetIn(f, k, "accepting") \/ Deny(f, k)
    BY <1>2 DEF ReadOffer
  <2>2. CASE SetIn(f, k, "accepting")
    <3>1. Local(f, k) /\ in'[f][k] = "accepting"
      BY <1>0, <2>1, <2>2, LocalReceiver DEF InPhase
    <3>2. Agreed(f, k)'
      BY <1>0, <2>1, <2>2, <3>1 DEF Agreed
    <3> QED
      BY <1>k, <2>1, <3>1, <3>2, LocalInv
  <2> QED
    BY <1>d, <1>k, <2>1, <2>2
<1>3. CASE ReceiveFails(f, k)
  <2>1. /\ UNCHANGED <<out, stored, final, outbox, dialing, sent, queued>>
        /\ part' = part \ {<<f, k>>}
        /\ \/ in[f][k] = "slot" /\ SetIn(f, k, "over") /\ UNCHANGED resp
           \/ in[f][k] = "receiving" /\ Deny(f, k) /\ UNCHANGED resp
    BY <1>3 DEF ReceiveFails
  <2>2. CASE in[f][k] = "slot" /\ SetIn(f, k, "over") /\ UNCHANGED resp
    <3>1. Local(f, k) /\ in'[f][k] = "over"
      BY <1>0, <2>1, <2>2, LocalReceiver DEF InPhase
    <3>2. Agreed(f, k)'
      BY <1>0, <2>1, <2>2, <3>1 DEF Agreed
    <3> QED
      BY <1>k, <2>1, <3>1, <3>2, LocalInv
  <2> QED
    BY <1>d, <1>k, <1>u, <2>1, <2>2
<1>4. CASE ReceiveAll(f, k)
  <2>1. /\ in[f][k] = "receiving" /\ out[f][k] = "written"
        /\ UNCHANGED <<out, stored, final, outbox, dialing, sent, queued>>
        /\ part' \in {part, part \ {<<f, k>>}}
        /\ UNCHANGED resp
        /\ SetIn(f, k, "hashed") \/ Deny(f, k)
    BY <1>4 DEF ReceiveAll
  <2>2. CASE SetIn(f, k, "hashed")
    <3>1. Local(f, k) /\ in'[f][k] = "hashed"
      BY <1>0, <2>1, <2>2, LocalReceiver DEF InPhase
    <3>2. Agreed(f, k)'
      BY <1>0, <2>1, <2>2, <3>1 DEF Agreed
    <3> QED
      BY <1>k, <2>1, <3>1, <3>2, LocalInv
  <2> QED
    BY <1>d, <1>k, <2>1, <2>2
<1>5. CASE Rename(f, k)
  <2>1. /\ in[f][k] = "hashed"
        /\ UNCHANGED <<out, stored, outbox, dialing, sent, queued>>
        /\ part' = part \ {<<f, k>>}
        /\ UNCHANGED resp
        /\ \/ SetIn(f, k, "renamed") /\ final' = final \cup {<<f, k>>}
           \/ Deny(f, k) /\ UNCHANGED final
    BY <1>5 DEF Rename
  <2>2. CASE SetIn(f, k, "renamed") /\ final' = final \cup {<<f, k>>}
    <3>1. Local(f, k) /\ in'[f][k] = "renamed"
      BY <1>0, <2>1, <2>2, LocalReceiver DEF InPhase
    <3>2. Agreed(f, k)'
      BY <1>0, <2>1, <2>2, <3>1 DEF Agreed
    <3> QED
      BY <1>k, <2>1, <2>2, <3>1, <3>2, LocalInv
  <2> QED
    BY <1>d, <1>k, <1>u, <2>1, <2>2
<1>6. CASE AddAttachment(f, k)
  <2>1. /\ in[f][k] = "renamed"
        /\ UNCHANGED <<out, resp, part, outbox, dialing, sent, queued>>
        /\ \/ /\ SetIn(f, k, "stored") /\ UNCHANGED final
              /\ stored' = stored \cup {<<f, k>>}
           \/ /\ Deny(f, k) /\ UNCHANGED stored
              /\ final' = final \ {<<f, k>>}
    BY <1>6 DEF AddAttachment
  <2>2. CASE SetIn(f, k, "stored") /\ UNCHANGED final /\ stored' = stored \cup {<<f, k>>}
    <3>1. Local(f, k) /\ in'[f][k] = "stored"
      BY <1>0, <2>1, <2>2, LocalReceiver DEF InPhase
    <3>2. Agreed(f, k)'
      BY <1>0, <2>1, <2>2, <3>1 DEF Agreed
    <3> QED
      BY <1>k, <2>1, <2>2, <3>1, <3>2, LocalInv
  <2> QED
    BY <1>d, <1>k, <1>u, <2>1, <2>2
<1>7. CASE WriteAck(f, k)
  <2>1. /\ in[f][k] = "stored" /\ Write(f, k, "accept", "over")
        /\ UNCHANGED <<out, part, final, stored, outbox, dialing, sent, queued>>
    BY <1>7 DEF WriteAck
  <2>2. /\ SetIn(f, k, "over")
        /\ resp' = resp \/ \E r : resp' = [resp EXCEPT ![f][k] = r]
        /\ out[f][k] # "over" => resp'[f][k] = Append(resp[f][k], "accept")
    BY <1>0, <2>1, WriteByte
  <2>3. Local(f, k) /\ in'[f][k] = "over"
    BY <1>0, <2>1, <2>2, LocalReceiver DEF InPhase
  <2>4. out[f][k] \in {"sending", "written"} => resp'[f][k] = <<"accept">>
    BY <1>0, <2>1, <2>2, Bytes1 DEF Agreed
  <2>5. Agreed(f, k)'
    BY <1>0, <2>1, <2>3, <2>4 DEF Agreed
  <2> QED
    BY <1>k, <2>1, <2>3, <2>5, LocalInv
<1>8. CASE WriteDenial(f, k)
  BY <1>8, <1>k, <1>u, <1>w DEF WriteDenial
<1>9. CASE WriteAccept(f, k)
  <2>1. /\ in[f][k] = "accepting"
        /\ UNCHANGED <<out, final, stored, outbox, dialing, sent, queued>>
        /\ part' \in {part, part \cup {<<f, k>>}}
        /\ \/ \E ph \in {"receiving", "over"} : Write(f, k, "accept", ph)
           \/ out[f][k] = "over" /\ SetIn(f, k, "over") /\ UNCHANGED resp
    BY <1>9 DEF WriteAccept
  <2>2. out[f][k] \in {"signed", "offered", "over"} /\ resp[f][k] = <<>>
    BY <1>0, <1>u, <2>1 DEF Agreed, OutPhase
  <2>3. PICK ph \in {"receiving", "over"} :
          /\ SetIn(f, k, ph)
          /\ resp' = resp \/ \E r : resp' = [resp EXCEPT ![f][k] = r]
          /\ out[f][k] # "over" => resp'[f][k] = Append(resp[f][k], "accept")
    BY <1>0, <2>1, WriteByte
  <2>4. Local(f, k) /\ in'[f][k] = ph
    BY <1>0, <2>1, <2>3, LocalReceiver DEF InPhase
  <2>5. out[f][k] # "over" => resp'[f][k] = <<"accept">>
    BY <2>2, <2>3, Bytes1
  <2>6. Agreed(f, k)'
    BY <1>0, <2>1, <2>2, <2>4, <2>5 DEF Agreed
  <2> QED
    BY <1>k, <2>1, <2>4, <2>6, LocalInv
<1> QED
  BY <1>1, <1>2, <1>3, <1>4, <1>5, <1>6, <1>7, <1>8, <1>9 DEF ReceiverStep, Answers

(* Starting attempts: each was unused, so the receiver has not seen it.      *)
LEMMA SpawnAgreed ==
  ASSUME AgreedInv, NEW fs, NEW proven, Spawn(fs, proven),
         UNCHANGED <<in, resp, part, final, stored, sent>>,
         outbox' \subseteq File, dialing' \subseteq File, queued' \subseteq File
  PROVE  AgreedInv'
<1>1. /\ Shape(out')
      /\ \A f \in File : \A k \in Try(f) :
           \/ out'[f][k] = out[f][k]
           \/ out[f][k] = "unused" /\ out'[f][k] \in {"signed", "offered"}
  BY DEF Spawn, Unused, Shape
<1>2. FileTypeOK'
  BY <1>1 DEF AgreedInv, FileTypeOK, OutPhase, Shape
<1>3. ASSUME NEW f \in File, NEW k \in Try(f) PROVE Agreed(f, k)'
  <2>1. Agreed(f, k) /\ UNCHANGED <<in, resp, stored, final>>
    BY <1>3 DEF AgreedInv
  <2>2. CASE out'[f][k] = out[f][k]
    BY <2>1, <2>2 DEF Agreed
  <2>3. CASE out[f][k] = "unused" /\ out'[f][k] \in {"signed", "offered"}
    <3>1. in[f][k] = "none" /\ resp[f][k] = <<>> /\ <<f, k>> \notin stored
      BY <2>1, <2>3 DEF Agreed
    <3> QED
      BY <2>1, <2>3, <3>1 DEF Agreed
  <2> QED
    BY <1>1, <1>3, <2>2, <2>3
<1> QED
  BY <1>2, <1>3 DEF AgreedInv

(* Requests, connections, ticket states and crashes keep the two sides of    *)
(* every attempt agreed.                                                     *)
LEMMA NodeAgreed ==
  ASSUME AgreedInv,
         \/ \E f \in File : SendFile(f)
         \/ ConnectionEstablished \/ OutgoingConnectionError \/ ConnectionClosed
         \/ \E s \in NextStates : SetStatus(s)
         \/ SenderCrash \/ ReceiverCrash
  PROVE  AgreedInv'
<1>0. outbox \subseteq File /\ dialing \subseteq File /\ queued \subseteq File
  BY DEF AgreedInv, FileTypeOK
<1>1. ASSUME NEW f \in File, SendFile(f) PROVE AgreedInv'
  <2>1. /\ UNCHANGED <<in, resp, part, final, stored, sent>>
        /\ outbox' \subseteq File /\ dialing' \subseteq File /\ queued' \subseteq File
        /\ Spawn({f}, Proven({f})) \/ UNCHANGED out
    BY <1>0, <1>1 DEF SendFile
  <2>2. CASE UNCHANGED out
    <3>1. FileTypeOK'
      BY <2>1, <2>2 DEF AgreedInv, FileTypeOK, Shape
    <3>2. ASSUME NEW g \in File, NEW k \in Try(g) PROVE Agreed(g, k)'
      BY <2>1, <2>2, <3>2 DEF AgreedInv, Agreed
    <3> QED
      BY <3>1, <3>2 DEF AgreedInv
  <2> QED
    BY <2>1, <2>2, SpawnAgreed
<1>2. CASE ConnectionEstablished
  BY <1>0, <1>2, SpawnAgreed DEF ConnectionEstablished
<1>3. CASE OutgoingConnectionError \/ ConnectionClosed \/ \E s \in NextStates : SetStatus(s)
  <2>1. /\ UNCHANGED <<out, in, resp, part, final, stored, sent, outbox, queued>>
        /\ dialing' \subseteq File
    BY <1>0, <1>3 DEF OutgoingConnectionError, ConnectionClosed, SetStatus
  <2>2. FileTypeOK'
    BY <2>1 DEF AgreedInv, FileTypeOK, Shape
  <2>3. ASSUME NEW f \in File, NEW k \in Try(f) PROVE Agreed(f, k)'
    BY <2>1, <2>3 DEF AgreedInv, Agreed
  <2> QED
    BY <2>2, <2>3 DEF AgreedInv
<1>4. CASE SenderCrash
  <2>1. /\ UNCHANGED <<in, part, final, stored, sent, outbox, queued>>
        /\ dialing' \subseteq File /\ Shape(out') /\ Shape(resp')
    BY <1>4 DEF SenderCrash, Shape
  <2>2. \A f \in File : \A k \in Try(f) :
          /\ out'[f][k] = IF out[f][k] = "unused" THEN "unused" ELSE "over"
          /\ resp'[f][k] = <<>>
    BY <1>4 DEF SenderCrash, Active
  <2>3. FileTypeOK'
    BY <2>1, <2>2 DEF AgreedInv, FileTypeOK, OutPhase, Shape
  <2>4. ASSUME NEW f \in File, NEW k \in Try(f) PROVE Agreed(f, k)'
    BY <2>1, <2>2, <2>4 DEF AgreedInv, Agreed
  <2> QED
    BY <2>3, <2>4 DEF AgreedInv
<1>5. CASE ReceiverCrash
  <2>1. /\ UNCHANGED <<out, resp, part, final, stored, sent, outbox, dialing, queued>>
        /\ Shape(in')
    BY <1>5 DEF ReceiverCrash, Shape
  <2>2. \A f \in File : \A k \in Try(f) :
          in'[f][k] = IF in[f][k] = "none" THEN "none" ELSE "over"
    BY <1>5, AttemptPairs DEF ReceiverCrash, Holding
  <2>3. FileTypeOK'
    BY <2>1, <2>2 DEF AgreedInv, FileTypeOK, InPhase, Shape
  <2>4. ASSUME NEW f \in File, NEW k \in Try(f) PROVE Agreed(f, k)'
    <3>1. Agreed(f, k) /\ out[f][k] \in OutPhase
      BY <2>4 DEF AgreedInv, FileTypeOK
    <3>2. in'[f][k] = IF in[f][k] = "none" THEN "none" ELSE "over"
      BY <2>2, <2>4
    <3> QED
      BY <2>1, <3>1, <3>2 DEF Agreed, OutPhase
  <2> QED
    BY <2>3, <2>4 DEF AgreedInv
<1> QED
  BY <1>1, <1>2, <1>3, <1>4, <1>5

(* Every step does.                                                          *)
LEMMA AgreedStep == AgreedInv /\ [FileNext]_fileVars => AgreedInv'
<1>1. ASSUME AgreedInv, UNCHANGED fileVars PROVE AgreedInv'
  <2>1. FileTypeOK'
    BY <1>1 DEF fileVars, AgreedInv, FileTypeOK, Shape
  <2>2. ASSUME NEW f \in File, NEW k \in Try(f) PROVE Agreed(f, k)'
    BY <1>1, <2>2 DEF fileVars, AgreedInv, Agreed
  <2> QED
    BY <2>1, <2>2 DEF AgreedInv
<1> QED
  BY <1>1, SenderAgreed, ReceiverAgreed, NodeAgreed DEF FileNext

(* A record has its file, and leaves the outbox only when it is one.         *)
LEMMA RecordsStep ==
  ASSUME AgreedInv, RecordBacked, KeptUntilStored, [FileNext]_fileVars
  PROVE  RecordBacked' /\ KeptUntilStored'
<1> USE DEF RecordBacked, KeptUntilStored
<1>1. ASSUME stored \subseteq stored', sent' = sent, outbox \subseteq outbox', 
             queued' \ outbox' \subseteq queued \ outbox
      PROVE  KeptUntilStored'
  BY <1>1
<1>2. ASSUME NEW f \in File, NEW k \in Try(f), SenderStep(f, k)
      PROVE  RecordBacked' /\ KeptUntilStored'
  <2>0. Agreed(f, k)
    BY DEF AgreedInv
  <2>1. UNCHANGED <<stored, final, queued>>
    BY <1>2 DEF SenderStep, ReadAccept, WriteAll, ReadAck, RemoveOutbox, SendFails
  <2>2. CASE ReadAck(f, k)
    <3>1. <<f, k>> \in stored
      BY <2>0, <2>2 DEF ReadAck, Agreed
    <3> QED
      BY <2>1, <2>2, <3>1 DEF ReadAck
  <2>3. CASE RemoveOutbox(f, k)
    <3>1. <<f, k>> \in stored
      BY <2>0, <2>3 DEF RemoveOutbox, Agreed
    <3> QED
      BY <2>1, <2>3, <3>1 DEF RemoveOutbox
  <2>4. CASE ReadAccept(f, k) \/ WriteAll(f, k) \/ SendFails(f, k)
    BY <1>1, <2>1, <2>4 DEF ReadAccept, WriteAll, SendFails
  <2> QED
    BY <1>2, <2>2, <2>3, <2>4 DEF SenderStep
<1>3. ASSUME NEW f \in File, NEW k \in Try(f), ReceiverStep(f, k)
      PROVE  RecordBacked' /\ KeptUntilStored'
  <2>0. Agreed(f, k)
    BY DEF AgreedInv
  <2>1. UNCHANGED <<sent, outbox, queued>> /\ stored \subseteq stored'
    BY <1>3 DEF ReceiverStep, AcceptStream, ReadOffer, ReceiveFails, ReceiveAll, Rename,
                AddAttachment, Answers, WriteAccept, WriteDenial, WriteAck
  <2>2. RecordBacked'
    <3>1. CASE AddAttachment(f, k)
      <4>1. <<f, k>> \in final /\ <<f, k>> \notin stored
        BY <2>0, <3>1 DEF AddAttachment, Agreed
      <4>2. \/ stored' = stored \cup {<<f, k>>} /\ final' = final
            \/ final' = final \ {<<f, k>>} /\ stored' = stored
        BY <3>1 DEF AddAttachment
      <4> QED
        BY <4>1, <4>2
    <3>2. CASE stored' = stored /\ final \subseteq final'
      BY <3>2
    <3> QED
      BY <1>3, <3>1, <3>2 DEF ReceiverStep, AcceptStream, ReadOffer, ReceiveFails, ReceiveAll,
                              Rename, Answers, WriteAccept, WriteDenial, WriteAck
  <2> QED
    BY <1>1, <2>1, <2>2
<1>4. CASE \E f \in File : SendFile(f)
  BY <1>1, <1>4 DEF SendFile
<1>5. CASE \/ ConnectionEstablished \/ OutgoingConnectionError \/ ConnectionClosed
           \/ \E s \in NextStates : SetStatus(s)
           \/ SenderCrash \/ ReceiverCrash
  BY <1>1, <1>5 DEF ConnectionEstablished, OutgoingConnectionError, ConnectionClosed, SetStatus,
                    SenderCrash, ReceiverCrash
<1>6. CASE UNCHANGED fileVars
  BY <1>1, <1>6 DEF fileVars
<1> QED
  BY <1>2, <1>3, <1>4, <1>5, <1>6 DEF FileNext

-------------------------------------------------------------------------------
(* The bytes of finitely many attempts of limited size.                      *)
LEMMA BytesBounded ==
  ASSUME NEW S, IsFiniteSet(S), S \subseteq Attempt, NEW M \in Nat,
         \A a \in S : Size[a[1]] =< M
  PROVE  IsFiniteSet(Bytes(S)) /\ Cardinality(Bytes(S)) =< Cardinality(S) * M
<1>1. Bytes(S) \subseteq S \X (1 .. M)
  <2>1. \A a \in S : Size[a[1]] \in Nat
    BY AttemptPairs, FileBounds
  <2> QED
    BY <2>1 DEF Bytes
<1>2. IsFiniteSet(1 .. M) /\ Cardinality(1 .. M) = M
  BY FS_Interval
<1>3. IsFiniteSet(S \X (1 .. M)) /\ Cardinality(S \X (1 .. M)) = Cardinality(S) * M
  BY <1>2, FS_Product
<1> QED
  BY <1>1, <1>3, FS_Subset

(* The bytes of two sets of attempts together.                               *)
LEMMA BytesUnion == \A S, T : Bytes(S \cup T) = Bytes(S) \cup Bytes(T)
BY DEF Bytes

(* Fewer attempts, fewer bytes.                                              *)
LEMMA BytesMonotone == ASSUME NEW S, NEW T, S \subseteq T PROVE Bytes(S) \subseteq Bytes(T)
BY DEF Bytes

(* Products of naturals.                                                     *)
LEMMA TimesMonotone == \A x, y, z \in Nat : x =< y => x * z =< y * z
OBVIOUS

(* Two finite sets together are no larger than their sum.                    *)
LEMMA CardinalityOfUnion ==
  ASSUME NEW S, NEW T, IsFiniteSet(S), IsFiniteSet(T)
  PROVE  /\ IsFiniteSet(S \cup T) /\ Cardinality(S \cup T) \in Nat
         /\ Cardinality(S \cup T) =< Cardinality(S) + Cardinality(T)
<1>1. IsFiniteSet(S \cup T)
      /\ Cardinality(S \cup T) = Cardinality(S) + Cardinality(T) - Cardinality(S \cap T)
  BY FS_Union
<1>2. IsFiniteSet(S \cap T)
  BY FS_Intersection
<1>3. /\ Cardinality(S \cap T) \in Nat /\ Cardinality(S) \in Nat /\ Cardinality(T) \in Nat
      /\ Cardinality(S \cup T) \in Nat
  BY <1>1, <1>2, FS_CardinalityType
<1> QED
  BY <1>1, <1>3

(* One attempt more, admitted by the quota, and fewer than Slots others.     *)
LEMMA Admitted ==
  ASSUME NEW S, NEW U, NEW a, IsFiniteSet(S), IsFiniteSet(U),
         S \subseteq Attempt, U \subseteq Attempt, a \in Attempt,
         \A b \in S \cup U \cup {a} : Size[b[1]] =< MaxFileSize,
         Cardinality(Bytes(S)) + Size[a[1]] =< Quota,
         Cardinality(U) =< Slots - 1
  PROVE  Cardinality(Bytes(S \cup U \cup {a})) =< Quota + (Slots - 1) * MaxFileSize
<1>1. /\ IsFiniteSet(Bytes(S)) /\ IsFiniteSet(Bytes(U)) /\ MaxFileSize \in Nat /\ Slots \in Nat
      /\ Quota \in Nat /\ Slots - 1 \in Nat
      /\ Cardinality(Bytes(U)) =< Cardinality(U) * MaxFileSize
  BY BytesBounded, FileBounds
<1>2. /\ IsFiniteSet({a}) /\ Cardinality({a}) = 1 /\ Size[a[1]] \in Nat
  BY FS_Singleton, AttemptPairs, FileBounds
<1>3. /\ IsFiniteSet(Bytes({a})) /\ Cardinality(Bytes({a})) =< 1 * Size[a[1]]
  BY <1>2, BytesBounded
<1>4. /\ Cardinality(U) \in Nat
      /\ Cardinality(Bytes(S)) \in Nat /\ Cardinality(Bytes(U)) \in Nat
      /\ Cardinality(Bytes({a})) \in Nat
  BY <1>1, <1>3, FS_CardinalityType
<1>5. Cardinality(U) * MaxFileSize =< (Slots - 1) * MaxFileSize
  BY <1>1, <1>4, TimesMonotone
<1>6. /\ IsFiniteSet(Bytes(S \cup U)) /\ Cardinality(Bytes(S \cup U)) \in Nat
      /\ Cardinality(Bytes(S \cup U)) =< Cardinality(Bytes(S)) + Cardinality(Bytes(U))
  <2>1. Bytes(S \cup U) = Bytes(S) \cup Bytes(U)
    BY BytesUnion
  <2> QED
    BY <1>1, <2>1, CardinalityOfUnion
<1>7. /\ Cardinality(Bytes(S \cup U \cup {a})) \in Nat
      /\ Cardinality(Bytes(S \cup U \cup {a}))
           =< Cardinality(Bytes(S \cup U)) + Cardinality(Bytes({a}))
  <2>1. Bytes(S \cup U \cup {a}) = Bytes(S \cup U) \cup Bytes({a})
    BY BytesUnion
  <2> QED
    BY <1>3, <1>6, <2>1, CardinalityOfUnion
<1>9. (Slots - 1) * MaxFileSize \in Nat /\ Cardinality(U) * MaxFileSize \in Nat
  BY <1>1, <1>4
<1>10. Cardinality(Bytes({a})) =< Size[a[1]]
  BY <1>2, <1>3
<1>11. PICK room \in Nat : /\ room = (Slots - 1) * MaxFileSize
                           /\ Cardinality(Bytes(U)) =< room
  <2>1. PICK held \in Nat : held = Cardinality(U) * MaxFileSize
    BY <1>9
  <2>2. PICK room \in Nat : room = (Slots - 1) * MaxFileSize
    BY <1>9
  <2>3. Cardinality(Bytes(U)) =< held /\ held =< room
    BY <1>1, <1>5, <2>1, <2>2
  <2>4. Cardinality(Bytes(U)) =< room
    BY <1>4, <2>3
  <2> QED
    BY <2>2, <2>4
<1>12. Cardinality(Bytes(U)) =< room /\ Quota \in Nat
  BY <1>1, <1>11
<1>13. Cardinality(Bytes(S \cup U \cup {a})) =< Cardinality(Bytes(S)) + room + Size[a[1]]
  BY <1>2, <1>4, <1>6, <1>7, <1>10, <1>12
<1>14. Cardinality(Bytes(S \cup U \cup {a})) =< Quota + room
  BY <1>2, <1>4, <1>7, <1>12, <1>13
<1> QED
  BY <1>11, <1>14

-------------------------------------------------------------------------------
(* An attempt under way holds a permit.                                      *)
LEMMA HoldersAreAttempts ==
  /\ Underway \subseteq Holding /\ Holding \subseteq Attempt /\ Underway \subseteq Attempt
BY DEF Underway, Holding

(* Less stored and under way, and fewer permits held, is no harm.            *)
LEMMA SpaceShrinks ==
  ASSUME FileTypeOK, SpaceInv, Holding' \subseteq Holding,
         (stored \cup Underway)' \subseteq stored \cup Underway
  PROVE  SpaceInv'
<1>1. IsFiniteSet(Holding') /\ Cardinality(Holding') =< Cardinality(Holding)
  BY FS_Subset DEF SpaceInv
<1>2. Cardinality(Holding') \in Nat /\ Cardinality(Holding) \in Nat /\ Slots \in Nat
  BY <1>1, FS_CardinalityType, FileBounds DEF SpaceInv
<1>3. IsFiniteSet(stored \cup Underway) /\ IsFiniteSet((stored \cup Underway)')
  <2>1. IsFiniteSet(Underway)
    BY HoldersAreAttempts, FS_Subset DEF SpaceInv
  <2>2. IsFiniteSet(stored \cup Underway)
    BY <2>1, FS_Union DEF SpaceInv
  <2> QED
    BY <2>2, FS_Subset
<1>4. IsFiniteSet(stored')
  BY <1>3, FS_Subset
<1>5. \A a \in (stored \cup Holding)' : Size[a[1]] =< MaxFileSize
  BY HoldersAreAttempts DEF SpaceInv
<1>6. Cardinality(Bytes((stored \cup Underway)')) =< Quota + (Slots - 1) * MaxFileSize
  <2>1. Bytes((stored \cup Underway)') \subseteq Bytes(stored \cup Underway)
    BY BytesMonotone
  <2>2. stored \cup Underway \subseteq Attempt /\ MaxFileSize \in Nat
    BY HoldersAreAttempts, FileBounds DEF FileTypeOK
  <2>3. \A a \in stored \cup Underway : Size[a[1]] =< MaxFileSize
    BY HoldersAreAttempts DEF SpaceInv
  <2>4. IsFiniteSet(Bytes(stored \cup Underway))
    BY <1>3, <2>2, <2>3, BytesBounded
  <2>5. /\ Cardinality(Bytes((stored \cup Underway)')) =< Cardinality(Bytes(stored \cup Underway))
        /\ IsFiniteSet(Bytes((stored \cup Underway)'))
    BY <2>1, <2>4, FS_Subset
  <2>6. /\ Cardinality(Bytes((stored \cup Underway)')) \in Nat
        /\ Cardinality(Bytes(stored \cup Underway)) \in Nat
    BY <2>4, <2>5, FS_CardinalityType
  <2>7. Quota + (Slots - 1) * MaxFileSize \in Int
    BY FileBounds
  <2>8. Cardinality(Bytes(stored \cup Underway)) =< Quota + (Slots - 1) * MaxFileSize
    BY DEF SpaceInv
  <2> QED
    BY <2>5, <2>6, <2>7, <2>8
<1>7. Cardinality(Holding') =< Slots
  BY <1>1, <1>2 DEF SpaceInv
<1> QED
  BY <1>1, <1>4, <1>5, <1>6, <1>7 DEF SpaceInv

(* A step of one attempt moves only that one between the sets.               *)
LEMMA LocalSets ==
  ASSUME NEW f \in File, NEW k \in Try(f), Local(f, k)
  PROVE  /\ \A a \in Attempt \ {<<f, k>>} :
              /\ a \in Holding' <=> a \in Holding
              /\ a \in Underway' <=> a \in Underway
         /\ <<f, k>> \in Holding' <=> in'[f][k] \notin {"none", "over"}
         /\ <<f, k>> \in Underway' <=> in'[f][k] \in {"accepting", "receiving", "hashed", "renamed"}
         /\ <<f, k>> \in Holding <=> in[f][k] \notin {"none", "over"}
         /\ <<f, k>> \in Underway <=> in[f][k] \in {"accepting", "receiving", "hashed", "renamed"}
<1>1. <<f, k>> \in Attempt /\ <<f, k>>[1] = f /\ <<f, k>>[2] = k
  BY AttemptPairs
<1>2. ASSUME NEW a \in Attempt \ {<<f, k>>} PROVE in'[a[1]][a[2]] = in[a[1]][a[2]]
  <2>1. a[1] \in File /\ a[2] \in Try(a[1]) /\ <<a[1], a[2]>> # <<f, k>>
    BY AttemptPairs
  <2> QED
    BY <2>1 DEF Local
<1>3. \A a \in Attempt \ {<<f, k>>} : a \in Holding' <=> a \in Holding
  BY <1>2 DEF Holding
<1>4. \A a \in Attempt \ {<<f, k>>} : a \in Underway' <=> a \in Underway
  BY <1>2 DEF Underway
<1>5. /\ <<f, k>> \in Holding' <=> in'[f][k] \notin {"none", "over"}
      /\ <<f, k>> \in Holding <=> in[f][k] \notin {"none", "over"}
  BY <1>1 DEF Holding
<1>6. /\ <<f, k>> \in Underway' <=> in'[f][k] \in {"accepting", "receiving", "hashed", "renamed"}
      /\ <<f, k>> \in Underway <=> in[f][k] \in {"accepting", "receiving", "hashed", "renamed"}
  BY <1>1 DEF Underway
<1> QED
  BY <1>3, <1>4, <1>5, <1>6

(* Where a receiver's step takes its attempt.                                *)
LEMMA ReceiverMoves ==
  ASSUME FileTypeOK, NEW f \in File, NEW k \in Try(f), ReceiverStep(f, k)
  PROVE  /\ Local(f, k)
         /\ \/ /\ in[f][k] = "none" /\ in'[f][k] = "slot" /\ stored' = stored
               /\ Size[f] =< MaxFileSize /\ Cardinality(Holding) < Slots
            \/ /\ in[f][k] = "slot" /\ in'[f][k] = "accepting" /\ stored' = stored
               /\ OfferOk(f, k)
            \/ in[f][k] = "accepting" /\ in'[f][k] = "receiving" /\ stored' = stored
            \/ in[f][k] # "none" /\ in[f][k] # "over" /\ in'[f][k] = "denying" /\ stored' = stored
            \/ in'[f][k] = "over" /\ stored' = stored
            \/ in[f][k] = "receiving" /\ in'[f][k] = "hashed" /\ stored' = stored
            \/ in[f][k] = "hashed" /\ in'[f][k] = "renamed" /\ stored' = stored
            \/ /\ in[f][k] = "renamed" /\ in'[f][k] = "stored"
               /\ stored' = stored \cup {<<f, k>>}
<1>1. PICK ph \in InPhase :
        /\ SetIn(f, k, ph)
        /\ \/ /\ in[f][k] = "none" /\ ph = "slot" /\ stored' = stored
              /\ Size[f] =< MaxFileSize /\ Cardinality(Holding) < Slots
           \/ in[f][k] = "slot" /\ ph = "accepting" /\ stored' = stored /\ OfferOk(f, k)
           \/ in[f][k] = "accepting" /\ ph = "receiving" /\ stored' = stored
           \/ in[f][k] # "none" /\ in[f][k] # "over" /\ ph = "denying" /\ stored' = stored
           \/ ph = "over" /\ stored' = stored
           \/ in[f][k] = "receiving" /\ ph = "hashed" /\ stored' = stored
           \/ in[f][k] = "hashed" /\ ph = "renamed" /\ stored' = stored
           \/ in[f][k] = "renamed" /\ ph = "stored" /\ stored' = stored \cup {<<f, k>>}
  <2> USE DEF InPhase, Write, Deny
  <2>1. CASE AcceptStream(f, k)
    BY <2>1 DEF AcceptStream
  <2>2. CASE ReadOffer(f, k)
    BY <2>2 DEF ReadOffer
  <2>3. CASE ReceiveFails(f, k) \/ ReceiveAll(f, k) \/ Rename(f, k)
    BY <2>3 DEF ReceiveFails, ReceiveAll, Rename
  <2>4. CASE AddAttachment(f, k)
    BY <2>4 DEF AddAttachment
  <2>5. CASE Answers(f, k)
    BY <2>5 DEF Answers, WriteAccept, WriteDenial, WriteAck
  <2> QED
    BY <2>1, <2>2, <2>3, <2>4, <2>5 DEF ReceiverStep
<1>2. /\ UNCHANGED out
      /\ resp' = resp \/ \E r : resp' = [resp EXCEPT ![f][k] = r]
      /\ final' \in {final, final \cup {<<f, k>>}, final \ {<<f, k>>}}
      /\ stored' = stored \/ stored' = stored \cup {<<f, k>>}
  BY DEF ReceiverStep, AcceptStream, ReadOffer, ReceiveFails, ReceiveAll, Rename,
         AddAttachment, Answers, WriteAccept, WriteDenial, WriteAck, Write
<1>3. Local(f, k) /\ in'[f][k] = ph
  BY <1>1, <1>2, LocalReceiver
<1> QED
  BY <1>1, <1>3

(* The disk stays bounded.                                                   *)
LEMMA ReceiverSpace ==
  ASSUME AgreedInv, SpaceInv, NEW f \in File, NEW k \in Try(f), ReceiverStep(f, k)
  PROVE  SpaceInv'
<1> DEFINE a == <<f, k>>
<1>0. /\ FileTypeOK /\ a \in Attempt /\ Local(f, k) /\ Holding \subseteq Attempt
      /\ Holding' \subseteq Attempt /\ Underway' \subseteq Attempt /\ stored \subseteq Attempt
      /\ a[1] = f
  BY AttemptPairs, ReceiverMoves, HoldersAreAttempts DEF AgreedInv, FileTypeOK, Holding, Underway
<1> HIDE DEF a
<1>1. CASE /\ in[f][k] = "none" /\ in'[f][k] = "slot" /\ stored' = stored
           /\ Size[f] =< MaxFileSize /\ Cardinality(Holding) < Slots
  <2>1. Holding' = Holding \cup {a} /\ Underway' = Underway
    <3>1. a \in Holding' /\ a \notin Underway' /\ a \notin Underway
      BY <1>0, <1>1, LocalSets DEF a
    <3>2. \A b \in Attempt \ {a} :
            (b \in Holding' <=> b \in Holding) /\ (b \in Underway' <=> b \in Underway)
      BY <1>0, LocalSets DEF a
    <3> QED
      BY <1>0, <3>1, <3>2, HoldersAreAttempts
  <2>2. /\ IsFiniteSet(Holding')
        /\ Cardinality(Holding') =< Cardinality(Holding) + 1
    <3>1. IsFiniteSet(Holding) /\ Cardinality(Holding) \in Nat
      BY FS_CardinalityType DEF SpaceInv
    <3>2. /\ IsFiniteSet(Holding \cup {a})
          /\ Cardinality(Holding \cup {a}) = IF a \in Holding THEN Cardinality(Holding)
                                                              ELSE Cardinality(Holding) + 1
      BY <3>1, FS_AddElement
    <3> QED
      BY <2>1, <3>1, <3>2
  <2>3. Cardinality(Holding') =< Slots
    <3>1. Cardinality(Holding) \in Nat /\ Cardinality(Holding') \in Nat /\ Slots \in Nat
      BY <2>2, FS_CardinalityType, FileBounds DEF SpaceInv
    <3> QED
      BY <1>1, <2>2, <3>1
  <2>4. \A b \in (stored \cup Holding)' : Size[b[1]] =< MaxFileSize
    BY <1>0, <1>1, <2>1 DEF SpaceInv
  <2>5. Bytes((stored \cup Underway)') = Bytes(stored \cup Underway)
    BY <1>1, <2>1
  <2> QED
    BY <1>1, <2>2, <2>3, <2>4, <2>5 DEF SpaceInv
<1>2. CASE in[f][k] = "slot" /\ in'[f][k] = "accepting" /\ stored' = stored /\ OfferOk(f, k)
  <2>1. /\ Holding' = Holding /\ Underway' = Underway \cup {a}
        /\ a \in Holding /\ a \notin Underway
    <3>1. a \in Holding /\ a \in Holding' /\ a \in Underway' /\ a \notin Underway
      BY <1>0, <1>2, LocalSets DEF a
    <3>2. \A b \in Attempt \ {a} :
            (b \in Holding' <=> b \in Holding) /\ (b \in Underway' <=> b \in Underway)
      BY <1>0, LocalSets DEF a
    <3> QED
      BY <1>0, <3>1, <3>2, HoldersAreAttempts
  <2>2. IsFiniteSet(Underway) /\ Cardinality(Underway) =< Slots - 1
    <3>1. IsFiniteSet(Holding \ {a}) /\ Cardinality(Holding \ {a}) = Cardinality(Holding) - 1
      BY <2>1, FS_RemoveElement DEF SpaceInv
    <3>2. IsFiniteSet(Underway) /\ Cardinality(Underway) =< Cardinality(Holding \ {a})
      BY <2>1, <3>1, HoldersAreAttempts, FS_Subset
    <3>3. Cardinality(Underway) \in Nat /\ Cardinality(Holding) \in Nat /\ Slots \in Nat
      BY <3>2, FS_CardinalityType, FileBounds DEF SpaceInv
    <3>4. Cardinality(Holding) =< Slots
      BY DEF SpaceInv
    <3> QED
      BY <3>1, <3>2, <3>3, <3>4
  <2>3. \A b \in stored \cup Underway \cup {a} : Size[b[1]] =< MaxFileSize
    BY <2>1, HoldersAreAttempts DEF SpaceInv
  <2>4. Cardinality(Bytes(stored)) + Size[a[1]] =< Quota
    BY <1>0, <1>2 DEF OfferOk, StoredBytes
  <2>5. Cardinality(Bytes(stored \cup Underway \cup {a})) =< Quota + (Slots - 1) * MaxFileSize
    BY <1>0, <2>2, <2>3, <2>4, Admitted, HoldersAreAttempts DEF SpaceInv
  <2>6. (stored \cup Underway)' = stored \cup Underway \cup {a}
    BY <1>2, <2>1
  <2> QED
    BY <1>2, <2>1, <2>5, <2>6 DEF SpaceInv
<1>3. CASE \/ in'[f][k] = "over" /\ stored' = stored
           \/ in[f][k] # "none" /\ in[f][k] # "over" /\ in'[f][k] = "denying" /\ stored' = stored
           \/ in[f][k] = "accepting" /\ in'[f][k] = "receiving" /\ stored' = stored
           \/ in[f][k] = "receiving" /\ in'[f][k] = "hashed" /\ stored' = stored
           \/ in[f][k] = "hashed" /\ in'[f][k] = "renamed" /\ stored' = stored
           \/ /\ in[f][k] = "renamed" /\ in'[f][k] = "stored"
              /\ stored' = stored \cup {<<f, k>>}
  <2>1. Holding' \subseteq Holding /\ (stored \cup Underway)' \subseteq stored \cup Underway
    <3>1. \A b \in Attempt \ {a} :
            (b \in Holding' <=> b \in Holding) /\ (b \in Underway' <=> b \in Underway)
      BY <1>0, LocalSets DEF a
    <3>2. (a \in Holding' => a \in Holding) /\ (a \in Underway' => a \in Underway)
      BY <1>0, <1>3, LocalSets DEF a
    <3>3. Holding' \subseteq Holding /\ Underway' \subseteq Underway
      BY <1>0, <3>1, <3>2
    <3>4. stored' \subseteq stored \cup Underway
      <4>1. CASE stored' = stored
        BY <4>1
      <4>2. CASE in[f][k] = "renamed" /\ stored' = stored \cup {a}
        <5>1. a \in Underway
          BY <1>0, <4>2, LocalSets DEF a
        <5> QED
          BY <4>2, <5>1
      <4> QED
        BY <1>3, <4>1, <4>2 DEF a
    <3> QED
      BY <3>3, <3>4
  <2> QED
    BY <1>0, <2>1, SpaceShrinks
<1> QED
  BY <1>0, <1>1, <1>2, <1>3, ReceiverMoves

(* Every step keeps the disk bounded.                                        *)
LEMMA SpaceStep == AgreedInv /\ SpaceInv /\ [FileNext]_fileVars => SpaceInv'
<1> SUFFICES ASSUME AgreedInv, SpaceInv, [FileNext]_fileVars PROVE SpaceInv'
  OBVIOUS
<1>0. FileTypeOK
  BY DEF AgreedInv
<1>1. ASSUME UNCHANGED <<in, stored>> PROVE SpaceInv'
  BY <1>0, <1>1, SpaceShrinks DEF Holding, Underway
<1>2. ASSUME NEW f \in File, NEW k \in Try(f), SenderStep(f, k) PROVE SpaceInv'
  BY <1>1, <1>2 DEF SenderStep, ReadAccept, WriteAll, ReadAck, RemoveOutbox, SendFails, EndOut
<1>3. CASE ReceiverCrash
  <2>1. Holding' = {} /\ Underway' = {} /\ stored' = stored
    BY <1>0, <1>3, AttemptPairs DEF ReceiverCrash, Holding, Underway
  <2> QED
    BY <1>0, <2>1, SpaceShrinks
<1>4. CASE \/ \E f \in File : SendFile(f)
           \/ ConnectionEstablished \/ OutgoingConnectionError \/ ConnectionClosed
           \/ \E s \in NextStates : SetStatus(s)
           \/ SenderCrash
  BY <1>1, <1>4 DEF SendFile, ConnectionEstablished, OutgoingConnectionError, ConnectionClosed,
                    SetStatus, SenderCrash
<1>5. CASE UNCHANGED fileVars
  BY <1>1, <1>5 DEF fileVars
<1> QED
  BY <1>2, <1>3, <1>4, <1>5, ReceiverSpace DEF FileNext

-------------------------------------------------------------------------------
(* The inductive invariant holds of every behaviour.                         *)
THEOREM FileInvariant == FileSpec => []FileInv
<1>1. FileInit => FileInv
  <2> SUFFICES ASSUME FileInit PROVE FileInv
    OBVIOUS
  <2>1. AgreedInv
    <3>1. FileTypeOK
      BY DEF FileInit, FileTypeOK, Shape, OutPhase, InPhase
    <3>2. ASSUME NEW f \in File, NEW k \in Try(f) PROVE Agreed(f, k)
      BY <3>2 DEF FileInit, Agreed
    <3> QED
      BY <3>1, <3>2 DEF AgreedInv
  <2>2. RecordBacked /\ KeptUntilStored
    BY DEF FileInit, RecordBacked, KeptUntilStored
  <2>3. Holding = {} /\ Underway = {} /\ stored = {}
    BY AttemptPairs DEF FileInit, Holding, Underway
  <2>4. Bytes({}) = {}
    BY DEF Bytes
  <2>5. 0 =< Quota + (Slots - 1) * MaxFileSize
    <3>1. Slots - 1 \in Nat /\ MaxFileSize \in Nat /\ Quota \in Nat
      BY FileBounds
    <3>2. (Slots - 1) * MaxFileSize \in Nat
      BY <3>1
    <3> QED
      BY <3>1, <3>2
  <2>6. IsFiniteSet({}) /\ Cardinality({}) = 0 /\ 0 =< Slots
    BY FS_EmptySet, FileBounds
  <2>7. stored \cup Holding = {} /\ stored \cup Underway = {}
    BY <2>3
  <2>8. SpaceInv
    BY <2>3, <2>4, <2>5, <2>6, <2>7 DEF SpaceInv
  <2> QED
    BY <2>1, <2>2, <2>8 DEF FileInv, AgreedInv
<1>2. FileInv /\ [FileNext]_fileVars => FileInv'
  <2>1. FileInv => AgreedInv /\ RecordBacked /\ KeptUntilStored /\ SpaceInv
    BY DEF FileInv, AgreedInv
  <2>2. AgreedInv' /\ RecordBacked' /\ KeptUntilStored' /\ SpaceInv' => FileInv'
    BY DEF FileInv, AgreedInv
  <2> QED
    BY <2>1, <2>2, AgreedStep, RecordsStep, SpaceStep
<1> QED
  BY <1>1, <1>2, PTL DEF FileSpec

(* A file record in the ticket means that the receiver has the whole file    *)
(* under its final name, after any crash of either side between the rename   *)
(* and the record.                                                           *)
THEOREM RecordAlwaysBacked == FileSpec => []RecordBacked
<1>1. FileInv => RecordBacked
  BY DEF FileInv
<1> QED
  BY <1>1, FileInvariant, PTL

(* The sender removes a file from its outbox only when the receiver has      *)
(* recorded it: a lost answer, a crash or a refused second attempt never     *)
(* loses the only copy.                                                      *)
THEOREM AlwaysKeptUntilStored == FileSpec => []KeptUntilStored
<1>1. FileInv => KeptUntilStored
  BY DEF FileInv
<1> QED
  BY <1>1, FileInvariant, PTL

(* What is recorded never exceeds the quota by more than the files admitted  *)
(* while the last one was: check_quota runs before the bytes arrive, and the *)
(* semaphore limits how many transfers have passed it and are not recorded.  *)
THEOREM StorageAlwaysBounded == FileSpec => []StorageBounded
<1>1. FileInv => StorageBounded
  <2> SUFFICES ASSUME FileInv PROVE StorageBounded
    OBVIOUS
  <2>0. /\ FileTypeOK /\ SpaceInv /\ IsFiniteSet(stored \cup Underway)
        /\ stored \cup Underway \subseteq Attempt /\ MaxFileSize \in Nat
    <3>1. FileTypeOK /\ SpaceInv
      BY DEF FileInv
    <3>2. IsFiniteSet(Underway)
      BY <3>1, HoldersAreAttempts, FS_Subset DEF SpaceInv
    <3>3. IsFiniteSet(stored \cup Underway)
      BY <3>1, <3>2, FS_Union DEF SpaceInv
    <3> QED
      BY <3>1, <3>3, HoldersAreAttempts, FileBounds DEF FileTypeOK
  <2>1. \A a \in stored \cup Underway : Size[a[1]] =< MaxFileSize
    BY <2>0, HoldersAreAttempts DEF SpaceInv
  <2>2. IsFiniteSet(Bytes(stored \cup Underway))
    BY <2>0, <2>1, BytesBounded
  <2>3. Bytes(stored) \subseteq Bytes(stored \cup Underway)
    BY BytesMonotone
  <2>4. /\ Cardinality(Bytes(stored)) =< Cardinality(Bytes(stored \cup Underway))
        /\ IsFiniteSet(Bytes(stored))
    BY <2>2, <2>3, FS_Subset
  <2>5. /\ Cardinality(Bytes(stored)) \in Nat
        /\ Cardinality(Bytes(stored \cup Underway)) \in Nat
    BY <2>2, <2>4, FS_CardinalityType
  <2>6. Quota + (Slots - 1) * MaxFileSize \in Int
    BY FileBounds
  <2> QED
    BY <2>0, <2>4, <2>5, <2>6 DEF StorageBounded, StoredBytes, SpaceInv
<1> QED
  BY <1>1, FileInvariant, PTL
===============================================================================
