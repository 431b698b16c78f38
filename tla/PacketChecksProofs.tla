-------------------------- MODULE PacketChecksProofs --------------------------
(***************************************************************************)
(* Proofs about PacketChecks: whatever frames the link delivers, of every  *)
(* length and with every value of the header fields, a packet that         *)
(* checknlp() lets through meets the assertions of the constructors, and   *)
(* no correct TCP packet is turned down.                                   *)
(*                                                                         *)
(* The inductive invariant adds what each step hands to the next: the      *)
(* length that getnlp() computed, and the checks that checknlp() made.     *)
(***************************************************************************)
EXTENDS PacketChecks, TLAPS

Stripped == pc \in {"stripped", "accepted", "built"} =>
              len = frame.caplen - LinkHeaderLen(frame)

Checked == pc \in {"accepted", "built"} =>
             \/ frame.ver = 6 /\ Checks6(frame, len)
             \/ frame.ver # 6 /\ Checks4(frame, len)

Inv == TypeOK /\ Stripped /\ Checked /\ CorrectIsAccepted

\* An unsigned short is a natural number.
LEMMA UShortIsNat == UShort \subseteq Nat
PROOF
  BY DEF UShort

\* The link header lengths and the limits of getnlp() (util.cc:50-98): what is
\* left of an accepted frame is a natural number of bytes.
LEMMA LinkFacts ==
  ASSUME NEW f \in FrameType
  PROVE  /\ LinkHeaderLen(f) \in 0 .. 18
         /\ MinCaplen(f) \in Nat
         /\ LinkHeaderLen(f) <= MinCaplen(f)
         /\ MinCaplen(f) <= LinkHeaderLen(f) + 20
PROOF
  <1>1. CASE f.dlt = EN10MB /\ f.vlan = TRUE
    BY <1>1 DEF LinkHeaderLen, MinCaplen, EN10MB, IP_HEADER_LEN
  <1>2. CASE f.dlt = EN10MB /\ f.vlan = FALSE
    BY <1>2 DEF LinkHeaderLen, MinCaplen, EN10MB, IP_HEADER_LEN
  <1>3. CASE f.dlt = "LINUX_SLL"
    BY <1>3 DEF LinkHeaderLen, MinCaplen, EN10MB, IP_HEADER_LEN
  <1>4. CASE f.dlt \notin {EN10MB, "LINUX_SLL"}
    BY <1>4 DEF LinkHeaderLen, MinCaplen, EN10MB, IP_HEADER_LEN
  <1> QED
    BY <1>1, <1>2, <1>3, <1>4 DEF FrameType

\* A correct packet passes both checks (util.cc:50-98, 116-182) although it
\* may have been cut off at SNAPLEN: the longest headers still fit.
LEMMA CorrectPasses ==
  ASSUME NEW f \in FrameType, Correct(f)
  PROVE  /\ Strips(f)
         /\ f.ver = 6 => Checks6(f, f.caplen - LinkHeaderLen(f))
         /\ f.ver # 6 => Checks4(f, f.caplen - LinkHeaderLen(f))
PROOF
  <1> DEFINE L == LinkHeaderLen(f)
  <1> DEFINE H == HeaderLen(f)
  <1>1. /\ f.caplen \in Nat /\ f.ver \in {4, 6} /\ f.hl \in 0 .. 15
        /\ f.iplen \in Nat /\ f.off \in 5 .. 15 /\ f.tcp
        /\ f.ver = 4 => f.hl >= 5
    <2>1. f.ver \in {4, 6} /\ f.off >= 5 /\ f.tcp /\ (f.ver = 4 => f.hl >= 5)
      BY DEF Correct, TcpChecks
    <2>2. f.caplen \in Nat /\ f.hl \in 0 .. 15 /\ f.off \in 0 .. 15
      BY DEF FrameType
    <2>3. f.iplen \in Nat
      BY UShortIsNat DEF FrameType
    <2>4. f.off \in 5 .. 15
      BY ONLY <2>1, <2>2
    <2> QED
      BY ONLY <2>1, <2>2, <2>3, <2>4
  <1>2. L \in 0 .. 18 /\ MinCaplen(f) <= L + 20
    BY LinkFacts
  <1>3. /\ H \in 20 .. 60
        /\ f.ver = 6 => H = 40
    BY <1>1 DEF HeaderLen, IP6_HEADER_LEN
  <1>4. PacketLen(f) \in Nat /\ PacketLen(f) >= H + 20
    BY <1>1, <1>3 DEF Correct, PacketLen, IP6_HEADER_LEN
  <1>5. f.caplen >= L + H + 20
    <2>1. \/ f.caplen >= L + PacketLen(f)
          \/ f.caplen >= 100
      BY DEF Correct, SNAPLEN
    <2> HIDE DEF L, H
    <2> QED
      BY <2>1, <1>1, <1>2, <1>3, <1>4
  <1>6. Strips(f)
    <2>1. f.caplen >= MinCaplen(f)
      <3>1. MinCaplen(f) \in Nat
        BY LinkFacts
      <3> HIDE DEF L, H
      <3> QED
        BY <3>1, <1>1, <1>2, <1>3, <1>5
    <2> QED
      BY <2>1 DEF Strips, Correct
  <1>7. f.caplen - L >= H + TCP_HEADER_LEN
    <2> HIDE DEF L, H
    <2> QED
      BY <1>1, <1>2, <1>3, <1>5 DEF TCP_HEADER_LEN
  <1>8. CASE f.ver = 6
    <2>1. f.caplen - L >= IP6_HEADER_LEN + TCP_HEADER_LEN
      BY <1>3, <1>7, <1>8 DEF IP6_HEADER_LEN
    <2> QED
      BY <1>6, <1>8, <2>1 DEF Checks6, Correct
  <1>9. CASE f.ver = 4
    <2>1. f.iplen >= H + TCP_HEADER_LEN
      BY <1>4, <1>9 DEF PacketLen, TCP_HEADER_LEN
    <2> QED
      BY <1>1, <1>6, <1>7, <1>9, <2>1 DEF Checks4, Correct
  <1> QED
    BY <1>1, <1>8, <1>9

-----------------------------------------------------------------------------
\* The inductive invariant: of the three steps, GetNlp computes the length
\* and CheckNlp makes the checks (Sniffer.cc:174-190).
LEMMA InvInductive == Inv /\ [Next]_vars => Inv'
PROOF
  <1> SUFFICES ASSUME Inv, [Next]_vars PROVE Inv'
    OBVIOUS
  <1>f. frame \in FrameType
    BY FramesAssumption DEF Inv, TypeOK
  <1>1. CASE GetNlp
    <2>1. CASE Strips(frame)
      <3>1. frame.caplen - LinkHeaderLen(frame) \in Nat
        BY <1>f, <2>1, LinkFacts DEF Strips, FrameType
      <3> QED
        BY <1>1, <2>1, <3>1
        DEF GetNlp, Inv, TypeOK, Stripped, Checked, CorrectIsAccepted
    <2>2. CASE ~Strips(frame)
      <3>1. ~Correct(frame)
        BY <1>f, <2>2, CorrectPasses
      <3> QED
        BY <1>1, <2>2, <3>1
        DEF GetNlp, Inv, TypeOK, Stripped, Checked, CorrectIsAccepted
    <2> QED
      BY <2>1, <2>2
  <1>2. CASE CheckNlp
    <2>1. len = frame.caplen - LinkHeaderLen(frame)
      BY <1>2 DEF CheckNlp, Inv, Stripped
    <2>2. CASE \/ frame.ver = 6 /\ Checks6(frame, len)
               \/ frame.ver # 6 /\ Checks4(frame, len)
      BY <1>2, <2>1, <2>2
      DEF CheckNlp, Inv, TypeOK, Stripped, Checked, CorrectIsAccepted
    <2>3. CASE ~(\/ frame.ver = 6 /\ Checks6(frame, len)
                 \/ frame.ver # 6 /\ Checks4(frame, len))
      <3>1. ~Correct(frame)
        BY <1>f, <2>1, <2>3, CorrectPasses
      <3> QED
        BY <1>2, <2>3, <3>1
        DEF CheckNlp, Inv, TypeOK, Stripped, Checked, CorrectIsAccepted
    <2> QED
      BY <2>2, <2>3
  <1>3. CASE NewTCPPacket
    BY <1>3 DEF NewTCPPacket, Inv, TypeOK, Stripped, Checked, CorrectIsAccepted
  <1>4. CASE UNCHANGED vars
    BY <1>4 DEF vars, Inv, TypeOK, Stripped, Checked, CorrectIsAccepted
  <1> QED
    BY <1>1, <1>2, <1>3, <1>4 DEF Next

\* The invariant holds in every reachable state (Sniffer.cc:164-197).
THEOREM Invariance == Spec => []Inv
PROOF
  <1>1. Init => Inv
    BY DEF Init, Inv, TypeOK, Stripped, Checked, CorrectIsAccepted
  <1> QED
    BY <1>1, InvInductive, PTL DEF Spec

\* Types: in particular the length passed to malloc() and memcpy() is never
\* the wrapped difference of two unsigned numbers (util.cc:70-71).
THEOREM TypeCorrect == Spec => []TypeOK
PROOF
  <1>1. Inv => TypeOK
    BY DEF Inv
  <1> QED
    BY <1>1, Invariance, PTL

\* The assertions of the constructors hold for every frame that checknlp()
\* lets through (TCPPacket.cc:18-20, 40, TCPHeader.cc:11, PacketBuffer.cc:158,
\* SocketPair.cc:57-61).
THEOREM ChecksMeetAssertions == Spec => []AssertionsHold
PROOF
  <1>1. Inv => AssertionsHold
    <2> SUFFICES ASSUME Inv, pc \in {"accepted", "built"}
                 PROVE  Assertions(frame, len)
      BY DEF AssertionsHold
    <2>f. frame \in FrameType /\ len \in Nat
      BY FramesAssumption DEF Inv, TypeOK
    <2>1. CASE frame.ver = 6 /\ Checks6(frame, len)
      BY <2>f, <2>1 DEF FrameType, Checks6, TcpChecks, Assertions
    <2>2. CASE frame.ver # 6 /\ Checks4(frame, len)
      <3>1. frame.iplen \in Nat /\ frame.hl \in 0 .. 15
        BY <2>f, UShortIsNat DEF FrameType
      <3>2. /\ len >= frame.hl * 4 + 20 /\ frame.iplen >= frame.hl * 4 + 20
            /\ frame.hl >= 5 /\ frame.ver = 4
        BY <2>2 DEF Checks4, HeaderLen, TCP_HEADER_LEN
      <3>3. len >= 20 /\ frame.iplen >= 20
        BY <2>f, <3>1, <3>2
      <3> QED
        BY <2>2, <3>2, <3>3 DEF Checks4, TcpChecks, Assertions
    <2> QED
      BY <2>1, <2>2 DEF Inv, Checked
  <1> QED
    BY <1>1, Invariance, PTL

\* The header fields that the constructors read lie in the bytes that were
\* captured (TCPPacket.cc:22-43, TCPHeader.cc:7-20).
THEOREM HeadersAreCaptured == Spec => []FieldsCaptured
PROOF
  <1>1. Inv => FieldsCaptured
    <2> SUFFICES ASSUME Inv, pc \in {"accepted", "built"}
                 PROVE  /\ HeaderLen(frame) + TCP_HEADER_LEN <= len
                        /\ LinkHeaderLen(frame) + len = frame.caplen
      BY DEF FieldsCaptured
    <2>f. frame \in FrameType /\ len \in Nat
      BY FramesAssumption DEF Inv, TypeOK
    <2>1. HeaderLen(frame) + TCP_HEADER_LEN <= len
      BY <2>f
      DEF Inv, Checked, FrameType, Checks4, Checks6, HeaderLen, IP6_HEADER_LEN, TCP_HEADER_LEN
    <2>2. LinkHeaderLen(frame) + len = frame.caplen
      BY <2>f, LinkFacts DEF Inv, Stripped, FrameType
    <2> QED
      BY <2>1, <2>2
  <1> QED
    BY <1>1, Invariance, PTL

\* No correct TCP packet over IP is turned down (util.cc:50-98, 116-182), of
\* whatever length, with whatever options: SNAPLEN is enough (defs.h:17-19).
THEOREM NoCorrectPacketIgnored == Spec => []CorrectIsAccepted
PROOF
  <1>1. Inv => CorrectIsAccepted
    BY DEF Inv
  <1> QED
    BY <1>1, Invariance, PTL

=============================================================================
