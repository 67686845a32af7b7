------------------------- MODULE ThreatIntelProofs -------------------------
(***************************************************************************)
(* Proofs about the MISP sidecar, the blocklist and the TLS ring, for any  *)
(* set of addresses and every capacity of the channel, the map and the     *)
(* ring.                                                                   *)
(***************************************************************************)
EXTENDS ThreatIntel, FiniteSetTheorems, TLAPS

(***************************************************************************)
(* The conversions.                                                        *)
(***************************************************************************)

\* Division by the base splits a number into its two octets.
LEMMA Octets ==
    ASSUME NEW x \in 0..Base-1, NEW y \in 0..Base-1
    PROVE  /\ x * Base + y \in 0..(Base * Base - 1)
           /\ (x * Base + y) % Base = y
           /\ (x * Base + y) \div Base = x
<1>1. Base \in Nat \ {0} /\ x \in Nat /\ y \in Nat /\ y < Base /\ x + 1 <= Base
  BY AddrsAssumption
<1>2. \A a, b, c \in Nat : a + 1 <= b => a * c + c <= b * c
  OBVIOUS
<1>3. x * Base \in Nat /\ Base * Base \in Nat
  BY <1>1
<1>4. x * Base + Base <= Base * Base
  BY <1>1, <1>2
<1>5. x * Base + y \in 0..(Base * Base - 1)
  BY <1>1, <1>3, <1>4
<1>6. \A q, r \in Nat, b \in Nat \ {0} :
         r < b => (q * b + r) % b = r /\ (q * b + r) \div b = q
  OBVIOUS
<1> QED BY <1>1, <1>5, <1>6

\* The number that travels for an address fits, and the key made of it is the
\* address as it is on the wire.
LEMMA KeyIsAddress ==
    ASSUME NEW a \in Addrs
    PROVE  /\ ToBe(FromIp(a)) \in 0..(Base * Base - 1)
           /\ ToNeBytes(ToBe(FromIp(a))) = a
<1>1. a \in (0..Base-1) \X (0..Base-1)
  BY AddrsAssumption
<1>2. a[1] \in 0..Base-1 /\ a[2] \in 0..Base-1 /\ a = <<a[1], a[2]>>
  BY <1>1
<1>3. FromIp(a) % Base = a[2] /\ FromIp(a) \div Base = a[1]
  BY <1>2, Octets DEF FromIp
<1>4. ToBe(FromIp(a)) = a[2] * Base + a[1]
  BY <1>3 DEF ToBe
<1>5. /\ ToBe(FromIp(a)) \in 0..(Base * Base - 1)
      /\ ToBe(FromIp(a)) % Base = a[1] /\ ToBe(FromIp(a)) \div Base = a[2]
  BY <1>2, <1>4, Octets
<1> QED BY <1>2, <1>5 DEF ToNeBytes

\* The copying loop copies as many bytes as payload_len tells.
LEMMA CopiesPayload ==
    ASSUME NEW len \in Nat
    PROVE  PayloadLen(len) = Copied(len) /\ PayloadLen(len) \in Nat
<1>1. PayloadCap \in Nat \ {0}
  BY IntelBounds
<1>2. PayloadLen(len) \in Nat
  BY <1>1 DEF PayloadLen
<1>3. {i \in 0..PayloadCap-1 : i + 1 <= len} = 0..(PayloadLen(len) - 1)
  BY <1>1 DEF PayloadLen
<1>4. Cardinality(0..(PayloadLen(len) - 1)) = PayloadLen(len)
  <2>1. CASE PayloadLen(len) = 0
    BY <2>1, FS_Interval
  <2>2. CASE PayloadLen(len) # 0
    BY <2>2, <1>2, FS_Interval
  <2> QED BY <2>1, <2>2
<1> QED BY <1>2, <1>3, <1>4 DEF Copied


-----------------------------------------------------------------------------
(***************************************************************************)
(* Type correctness.                                                       *)
(***************************************************************************)
TlsRecord == [id: Nat, payload_len: Nat, copied: Nat]

\* The type invariant, of finite maps and of a ring that holds records.
IntelType == /\ TypeOK
             /\ IsFiniteSet(c2_blocklist)
             /\ tls_events \in Seq(TlsRecord)

SidecarOK == sidecar \in Sidecars /\ (sidecar.at = "log" => sidecar.sent \in Addrs)

\* Addresses are what blockable attributes carry.
LEMMA BlockableValue ==
    ASSUME NEW t \in Attributes, Blockable(t)
    PROVE  t.value \in Addrs
BY DEF Attributes, Blockable

\* An update keeps the map within its capacity and of keys.
LEMMA UpdateFits ==
    ASSUME IntelType, NEW m \in [addr: Addrs, num: 0..(Base * Base - 1)],
           m.num = ToBe(FromIp(m.addr)), Update(m)
    PROVE  /\ c2_blocklist' \subseteq Keys /\ IsFiniteSet(c2_blocklist')
           /\ Cardinality(c2_blocklist') <= MapCap
           /\ applied' \subseteq Addrs /\ refused' \subseteq Addrs
           /\ \/ /\ c2_blocklist' = c2_blocklist \cup {m.addr}
                 /\ applied' = applied \cup {m.addr}
                 /\ refused' = refused
              \/ /\ refused' = refused \cup {m.addr}
                 /\ UNCHANGED <<c2_blocklist, applied>>
<1>1. /\ c2_blocklist \subseteq Keys /\ IsFiniteSet(c2_blocklist)
      /\ Cardinality(c2_blocklist) <= MapCap /\ MapCap \in Nat
      /\ applied \subseteq Addrs /\ refused \subseteq Addrs
  BY IntelBounds DEF IntelType, TypeOK
<1>2. Cardinality(c2_blocklist) \in Nat
  BY <1>1, FS_CardinalityType
<1>3. m.addr \in Addrs /\ m.addr \in Keys /\ ToNeBytes(m.num) = m.addr
  BY KeyIsAddress, AddrsAssumption DEF Keys
<1>4. CASE /\ ToNeBytes(m.num) \in c2_blocklist \/ Cardinality(c2_blocklist) < MapCap
           /\ c2_blocklist' = c2_blocklist \cup {ToNeBytes(m.num)}
           /\ applied' = applied \cup {m.addr}
           /\ UNCHANGED refused
  <2>1. c2_blocklist' = c2_blocklist \cup {m.addr}
    BY <1>3, <1>4
  <2>2. /\ IsFiniteSet(c2_blocklist \cup {m.addr})
        /\ Cardinality(c2_blocklist \cup {m.addr}) <= MapCap
    <3>1. /\ IsFiniteSet(c2_blocklist \cup {m.addr})
          /\ Cardinality(c2_blocklist \cup {m.addr}) =
                IF m.addr \in c2_blocklist THEN Cardinality(c2_blocklist)
                ELSE Cardinality(c2_blocklist) + 1
      BY <1>1, FS_AddElement
    <3>2. m.addr \in c2_blocklist \/ Cardinality(c2_blocklist) < MapCap
      BY <1>3, <1>4
    <3> QED BY <1>1, <1>2, <3>1, <3>2
  <2> QED BY <1>1, <1>3, <1>4, <2>1, <2>2
<1>5. CASE /\ refused' = refused \cup {m.addr}
           /\ UNCHANGED <<c2_blocklist, applied>>
  BY <1>1, <1>3, <1>5
<1> QED BY <1>4, <1>5 DEF Update

\* What the channel carries is numbered as it should be.
ChanOK == \A i \in 1..Len(chan) : chan[i].num = ToBe(FromIp(chan[i].addr))

\* What the main loop takes out of the channel next.
LEMMA ChanHead ==
    ASSUME IntelType, ChanOK, chan # <<>>
    PROVE  /\ Head(chan) \in [addr: Addrs, num: 0..(Base * Base - 1)]
           /\ Head(chan) = chan[1] /\ 1 \in 1..Len(chan)
           /\ Head(chan).num = ToBe(FromIp(Head(chan).addr))
<1> DEFINE S == [addr: Addrs, num: 0..(Base * Base - 1)]
<1>1. chan \in Seq(S)
  BY DEF IntelType, TypeOK
<1> HIDE DEF S
<1>2. Head(chan) \in S /\ Head(chan) = chan[1] /\ 1 \in 1..Len(chan)
  BY <1>1
<1>3. Head(chan).num = ToBe(FromIp(Head(chan).addr))
  BY <1>2 DEF ChanOK
<1> QED BY <1>2, <1>3 DEF S

\* A blockable attribute enters the channel under its number.
LEMMA ForwardTyped ==
    ASSUME IntelType, ChanOK, NEW t \in Attributes, Forward(t)
    PROVE  IntelType' /\ ChanOK'
<1>0. /\ chan \in Seq([addr: Addrs, num: 0..(Base * Base - 1)])
      /\ Len(chan) <= ChanCap /\ ChanCap \in Nat
      /\ SidecarOK
  BY IntelBounds DEF IntelType, TypeOK, SidecarOK
<1>1. SidecarOK'
  <2>1. sidecar \in Sidecars /\ sidecar.todo \ {t} \in SUBSET Attributes
    BY <1>0 DEF SidecarOK, Sidecars
  <2>2. CASE /\ Blockable(t)
             /\ sidecar' = [at |-> "log", todo |-> sidecar.todo \ {t},
                            sent |-> t.value]
    BY <2>1, <2>2, BlockableValue DEF SidecarOK, Sidecars
  <2>3. CASE sidecar.at = "send" /\ sidecar' = [sidecar EXCEPT !.todo = @ \ {t}]
    BY <2>1, <2>3 DEF SidecarOK, Sidecars
  <2> QED BY <2>2, <2>3 DEF Forward
<1>2. /\ chan' \in Seq([addr: Addrs, num: 0..(Base * Base - 1)])
      /\ Len(chan') <= ChanCap /\ ChanOK'
  <2>1. CASE /\ Blockable(t) /\ Len(chan) < ChanCap
             /\ chan' = Append(chan, [addr |-> t.value,
                                      num |-> ToBe(FromIp(t.value))])
    <3>1. t.value \in Addrs /\ ToBe(FromIp(t.value)) \in 0..(Base * Base - 1)
      BY <2>1, BlockableValue, KeyIsAddress
    <3> DEFINE r == [addr |-> t.value, num |-> ToBe(FromIp(t.value))]
    <3>2. /\ r \in [addr: Addrs, num: 0..(Base * Base - 1)]
          /\ r.num = ToBe(FromIp(r.addr)) /\ chan' = Append(chan, r)
      BY <2>1, <3>1
    <3> HIDE DEF r
    <3>3. /\ chan' \in Seq([addr: Addrs, num: 0..(Base * Base - 1)])
          /\ Len(chan') = Len(chan) + 1
          /\ \A i \in 1..Len(chan) : chan'[i] = chan[i]
          /\ chan'[Len(chan')] = r
      BY <1>0, <3>2
    <3>4. ChanOK'
      <4> SUFFICES ASSUME NEW i \in 1..Len(chan')
                   PROVE  chan'[i].num = ToBe(FromIp(chan'[i].addr))
        BY DEF ChanOK, ToBe, FromIp
      <4>1. i \in 1..Len(chan) \/ i = Len(chan')
        BY <1>0, <3>3
      <4> QED BY <4>1, <3>2, <3>3 DEF ChanOK
    <3> QED BY <1>0, <2>1, <3>1, <3>3, <3>4
  <2>2. CASE UNCHANGED chan
    BY <1>0, <2>2 DEF ChanOK, ToBe, FromIp
  <2> QED BY <2>1, <2>2 DEF Forward
<1> QED BY <1>1, <1>2
        DEF IntelType, TypeOK, SidecarOK, Forward, intelVars, hostVars, mapVars,
            tlsVars, claimVars

\* The main loop takes one address out of the channel and into the map.
LEMMA DrainTyped ==
    ASSUME IntelType, ChanOK, Drain
    PROVE  IntelType' /\ ChanOK'
<1>0. /\ chan \in Seq([addr: Addrs, num: 0..(Base * Base - 1)])
      /\ Len(chan) <= ChanCap /\ ChanCap \in Nat /\ chan # <<>>
      /\ chan' = Tail(chan)
  BY IntelBounds DEF IntelType, TypeOK, Drain
<1>1. /\ Head(chan) \in [addr: Addrs, num: 0..(Base * Base - 1)]
      /\ Head(chan).num = ToBe(FromIp(Head(chan).addr))
  BY <1>0, ChanHead
<1>3. /\ c2_blocklist' \subseteq Keys /\ IsFiniteSet(c2_blocklist')
      /\ Cardinality(c2_blocklist') <= MapCap
      /\ applied' \subseteq Addrs /\ refused' \subseteq Addrs
  BY <1>1, UpdateFits DEF Drain
<1>4. /\ chan' \in Seq([addr: Addrs, num: 0..(Base * Base - 1)])
      /\ Len(chan') = Len(chan) - 1 /\ Len(chan) \in Nat
      /\ \A i \in 1..Len(chan') : i + 1 \in 1..Len(chan) /\ chan'[i] = chan[i + 1]
  BY <1>0
<1>5. Len(chan') <= ChanCap
  BY <1>0, <1>4
<1>6. ChanOK'
  BY <1>4 DEF ChanOK, ToBe, FromIp
<1> QED BY <1>3, <1>4, <1>5, <1>6
        DEF IntelType, TypeOK, Drain, intelVars, hostVars, tlsVars, claimVars

\* A packet may leave one record in the TLS ring.
LEMMA ReceiveTyped ==
    ASSUME IntelType, NEW p \in Packets, Receive(p)
    PROVE  IntelType'
<1>0. /\ tls_events \in Seq(TlsRecord) /\ Len(tls_events) <= TlsSlots
      /\ TlsSlots \in Nat /\ packets \in 0..MaxPackets /\ MaxPackets \in Nat
      /\ \A i \in 1..Len(tls_events) :
            tls_events[i].payload_len = tls_events[i].copied
      /\ packets' = packets + 1 /\ packets < MaxPackets
  BY IntelBounds DEF IntelType, TypeOK, Receive
<1>1. packets' \in 0..MaxPackets /\ packets' \in Nat
  BY <1>0
<1>2. p.dst \in Addrs /\ p.len \in Nat
  <2>1. CASE p \in [src: Addrs, dst: Addrs, parsed: {"none", "ip"}, len: {0}]
    BY <2>1
  <2>2. CASE p \in [src: Addrs, dst: Addrs, parsed: {"hello"}, len: Lengths]
    <3>1. p.dst \in Addrs /\ p.len \in Lengths
      BY <2>2
    <3> QED BY <3>1, IntelBounds
  <2> QED BY <2>1, <2>2 DEF Packets
<1>3. dropped' \subseteq Addrs
  BY <1>2 DEF Receive, IntelType, TypeOK
<1>4. /\ tls_events' \in Seq(TlsRecord) /\ Len(tls_events') <= TlsSlots
      /\ \A i \in 1..Len(tls_events') :
            tls_events'[i].payload_len = tls_events'[i].copied
  <2>1. CASE /\ Len(tls_events) < TlsSlots
             /\ tls_events' = Append(tls_events,
                      [id |-> packets', payload_len |-> PayloadLen(p.len),
                       copied |-> Copied(p.len)])
    <3> DEFINE r == [id |-> packets', payload_len |-> PayloadLen(p.len),
                     copied |-> Copied(p.len)]
    <3>1. /\ r \in TlsRecord /\ r.payload_len = r.copied
          /\ tls_events' = Append(tls_events, r)
      BY <1>1, <1>2, <2>1, CopiesPayload DEF TlsRecord
    <3> HIDE DEF r
    <3>2. /\ tls_events' \in Seq(TlsRecord)
          /\ Len(tls_events') = Len(tls_events) + 1
          /\ \A i \in 1..Len(tls_events) : tls_events'[i] = tls_events[i]
          /\ tls_events'[Len(tls_events')] = r
      BY <1>0, <3>1
    <3>3. \A i \in 1..Len(tls_events') : i \in 1..Len(tls_events) \/ i = Len(tls_events')
      BY <1>0, <3>2
    <3> QED BY <1>0, <2>1, <3>1, <3>2, <3>3
  <2>2. CASE UNCHANGED tls_events
    BY <1>0, <2>2
  <2> QED BY <2>1, <2>2 DEF Receive
<1> QED BY <1>1, <1>3, <1>4
        DEF IntelType, TypeOK, Receive, intelVars, hostVars, mapVars, claimVars

\* handle_tls_event takes one record out of the ring.
LEMMA HandleTlsTyped ==
    ASSUME IntelType, HandleTls
    PROVE  IntelType'
<1>0. /\ tls_events \in Seq(TlsRecord) /\ Len(tls_events) <= TlsSlots
      /\ TlsSlots \in Nat /\ tls_events # <<>> /\ tls_events' = Tail(tls_events)
      /\ \A i \in 1..Len(tls_events) :
            tls_events[i].payload_len = tls_events[i].copied
  BY IntelBounds DEF IntelType, TypeOK, HandleTls
<1>1. /\ tls_events' \in Seq(TlsRecord) /\ Len(tls_events') = Len(tls_events) - 1
      /\ \A i \in 1..Len(tls_events') :
            i + 1 \in 1..Len(tls_events) /\ tls_events'[i] = tls_events[i + 1]
  BY <1>0
<1>2. Len(tls_events') <= TlsSlots
  BY <1>0, <1>1
<1> QED BY <1>0, <1>1, <1>2
        DEF IntelType, TypeOK, HandleTls, intelVars, hostVars, mapVars, claimVars

\* Main takes the maps and the channel with it.
LEMMA GoneTyped ==
    ASSUME IntelType, PollError \/ Killed
    PROVE  IntelType' /\ ChanOK'
<1>1. /\ crashes' = crashes + 1 /\ crashes < MaxCrashes /\ crashes \in 0..MaxCrashes
      /\ MaxCrashes \in Nat
  BY IntelBounds DEF IntelType, TypeOK, PollError, Killed, MainGone
<1>2. /\ c2_blocklist' = {} /\ tls_events' = <<>> /\ chan' = <<>>
      /\ attached' = FALSE /\ loop' = "poll" /\ agent' \in {"draining", "down"}
      /\ gone' \subseteq Addrs /\ applied' = {} /\ refused' = {}
  BY DEF PollError, Killed, MainGone
<1>3. SidecarOK'
  BY DEF PollError, Killed, IntelType, TypeOK, Waiting, SidecarOK, Sidecars
<1>4. /\ IsFiniteSet(c2_blocklist') /\ Cardinality(c2_blocklist') <= MapCap
      /\ Len(chan') <= ChanCap /\ Len(tls_events') <= TlsSlots
  BY <1>2, FS_EmptySet, IntelBounds
<1>5. crashes' \in 0..MaxCrashes
  BY <1>1
<1>6. /\ chan' \in Seq([addr: Addrs, num: 0..(Base * Base - 1)])
      /\ tls_events' \in Seq(TlsRecord)
      /\ Len(chan') = 0 /\ Len(tls_events') = 0
  BY <1>2
<1>7. UNCHANGED <<feed, edits, published, packets, dropped, claimed>>
  BY DEF PollError, Killed, MainGone, intelVars
<1>8. ChanOK'
  BY <1>6 DEF ChanOK, ToBe, FromIp
<1>9. TypeOK'
  <2>1. UNION {published', claimed', gone', applied', refused', dropped'}
           \subseteq Addrs
    BY <1>2, <1>7 DEF IntelType, TypeOK
  <2>2. attached' \in BOOLEAN
    BY <1>2, Zenon
  <2>3. c2_blocklist' \subseteq Keys
    BY <1>2
  <2>4. /\ loop' \in {"poll", "drain"} /\ agent' \in {"up", "draining", "down"}
    BY <1>2
  <2>5. /\ feed' \subseteq Attributes /\ edits' \in 0..MaxEdits
        /\ packets' \in 0..MaxPackets
    BY <1>7 DEF IntelType, TypeOK
  <2>6. \A i \in 1..Len(tls_events') :
           tls_events'[i].payload_len = tls_events'[i].copied
    BY <1>6
  <2> QED BY <1>3, <1>4, <1>5, <1>6, <2>1, <2>2, <2>3, <2>4, <2>5, <2>6
          DEF TypeOK, SidecarOK
<1> QED BY <1>4, <1>6, <1>8, <1>9 DEF IntelType

\* One step per action.
LEMMA IntelTypeStep ==
    ASSUME IntelType, ChanOK, [Next]_vars
    PROVE  IntelType' /\ ChanOK'
<1>a. CASE \E t \in Attributes : Forward(t)
  BY <1>a, ForwardTyped
<1>b. CASE Drain
  BY <1>b, DrainTyped
<1>c. CASE PollError \/ Killed
  BY <1>c, GoneTyped
<1>d. CASE HandleTls
  BY <1>d, HandleTlsTyped
     DEF HandleTls, ChanOK, ToBe, FromIp
<1>e. CASE \E p \in Packets : Receive(p)
  BY <1>e, ReceiveTyped DEF Receive, ChanOK, ToBe, FromIp
<1>f. CASE \E t \in Attributes : Edit(t)
  <2> PICK t \in Attributes : Edit(t)
    BY <1>f
  <2>1. edits' \in 0..MaxEdits
    BY IntelBounds DEF Edit, IntelType, TypeOK
  <2>2. feed' \subseteq Attributes
    BY DEF Edit, IntelType, TypeOK
  <2>3. \A u \in feed' : Blockable(u) => u.value \in Addrs
    BY <2>2, BlockableValue
  <2>4. published' \subseteq Addrs
    BY <2>3 DEF Edit, IntelType, TypeOK
  <2> QED BY <2>1, <2>2, <2>4
          DEF Edit, IntelType, TypeOK, hostVars, mapVars, tlsVars, claimVars, ChanOK,
              ToBe, FromIp
<1>g. CASE Fetch \/ EndRound \/ SidecarEnds
  <2>1. SidecarOK'
    BY <1>g DEF Fetch, EndRound, SidecarEnds, Waiting, IntelType, TypeOK,
                SidecarOK, Sidecars
  <2>2. UNCHANGED <<intelVars, hostVars, mapVars, tlsVars, chan, loop, claimVars>>
    BY <1>g DEF Fetch, EndRound, SidecarEnds
  <2> QED BY <2>1, <2>2
          DEF IntelType, TypeOK, SidecarOK, ChanOK, ToBe, FromIp, intelVars, hostVars,
              mapVars, tlsVars, claimVars
<1>h. CASE EndPoll \/ EndDrain
  <2>1. loop' \in {"poll", "drain"}
    BY <1>h DEF EndPoll, EndDrain
  <2>2. UNCHANGED <<intelVars, hostVars, mapVars, tlsVars, sidecar, chan, claimVars>>
    BY <1>h DEF EndPoll, EndDrain
  <2> QED BY <2>1, <2>2
          DEF IntelType, TypeOK, SidecarOK, ChanOK, ToBe, FromIp, intelVars, hostVars,
              mapVars, tlsVars, claimVars
<1>i. CASE AttachXdp
  BY <1>i DEF AttachXdp, IntelType, TypeOK, ChanOK, ToBe, FromIp, intelVars,
              mapVars, tlsVars, claimVars
<1>j. CASE Restart
  <2>1. SidecarOK' /\ agent' = "up" /\ claimed' = {} /\ gone' = {}
    BY <1>j DEF Restart, Waiting, SidecarOK, Sidecars
  <2> QED BY <1>j, <2>1
          DEF Restart, IntelType, TypeOK, SidecarOK, ChanOK, ToBe, FromIp, intelVars,
              mapVars, tlsVars
<1>l. CASE LogIntel
  <2>1. SidecarOK' /\ claimed' \subseteq Addrs
    <3>1. SidecarOK /\ sidecar.at = "log" /\ claimed \subseteq Addrs
      BY <1>l DEF LogIntel, IntelType, TypeOK, SidecarOK
    <3> QED BY <1>l, <3>1 DEF LogIntel, SidecarOK, Sidecars
  <2> QED BY <1>l, <2>1
          DEF LogIntel, IntelType, TypeOK, SidecarOK, ChanOK, ToBe, FromIp, intelVars,
              hostVars, mapVars, tlsVars
<1>k. CASE UNCHANGED vars
  BY <1>k DEF vars, IntelType, TypeOK, ChanOK, ToBe, FromIp, intelVars,
              hostVars, mapVars, tlsVars, claimVars
<1> QED BY <1>a, <1>b, <1>c, <1>d, <1>e, <1>f, <1>g, <1>h, <1>i, <1>j, <1>k, <1>l
        DEF Next, Sidecar, MainLoop

\* The agent starts with nothing published and its maps empty.
LEMMA IntelTypeInit == Init => IntelType /\ ChanOK
<1> SUFFICES ASSUME Init PROVE IntelType /\ ChanOK
  OBVIOUS
<1>1. /\ chan = <<>> /\ tls_events = <<>> /\ c2_blocklist = {}
      /\ sidecar = Waiting
  BY DEF Init
<1>2. /\ IsFiniteSet(c2_blocklist) /\ Cardinality(c2_blocklist) <= MapCap
      /\ Len(chan) <= ChanCap /\ Len(tls_events) <= TlsSlots
  BY <1>1, FS_EmptySet, IntelBounds
<1>3. /\ chan \in Seq([addr: Addrs, num: 0..(Base * Base - 1)])
      /\ tls_events \in Seq(TlsRecord)
      /\ Len(chan) = 0 /\ Len(tls_events) = 0
  BY <1>1
<1>4. SidecarOK
  BY <1>1 DEF Waiting, SidecarOK, Sidecars
<1>5. attached \in BOOLEAN
  BY Zenon DEF Init
<1>6. TypeOK
  BY <1>2, <1>3, <1>4, <1>5, IntelBounds DEF Init, TypeOK, SidecarOK
<1> QED BY <1>2, <1>3, <1>6 DEF IntelType, ChanOK

\* For every capacity: the channel, the map and the TLS ring are never
\* overfilled, and a TLS record tells as many bytes as were copied.
THEOREM IntelTypeCorrect == Spec => []TypeOK
<1>1. IntelType => TypeOK
  BY DEF IntelType
<1> QED BY <1>1, IntelTypeInit, IntelTypeStep, PTL DEF Spec


-----------------------------------------------------------------------------
(***************************************************************************)
(* What is blocked is what MISP published.                                 *)
(***************************************************************************)

\* What the blocklist holds came all the way from MISP, and holds what the main
\* loop reported.
SourceInv ==
    /\ \A t \in feed : Blockable(t) => t.value \in published
    /\ \A t \in sidecar.todo : Blockable(t) => t.value \in published
    /\ \A i \in 1..Len(chan) : chan[i].addr \in published
    /\ c2_blocklist \subseteq published
    /\ applied \subseteq c2_blocklist
    /\ BlocksTheIntel

\* One step per action that touches what SourceInv relates.
LEMMA SourceStep ==
    ASSUME IntelType, ChanOK, SourceInv, [Next]_vars
    PROVE  SourceInv'
<1>0. /\ chan \in Seq([addr: Addrs, num: 0..(Base * Base - 1)])
      /\ sidecar \in Sidecars
  BY DEF IntelType, TypeOK
<1>a. CASE \E t \in Attributes : Forward(t)
  <2> PICK t \in Attributes : Forward(t)
    BY <1>a
  <2>1. /\ sidecar'.todo \subseteq sidecar.todo /\ t \in sidecar.todo
        /\ UNCHANGED <<intelVars, hostVars, mapVars, tlsVars, loop>>
    BY <1>0 DEF Forward, Sidecars
  <2>2. CASE /\ Blockable(t)
             /\ chan' = Append(chan, [addr |-> t.value,
                                      num |-> ToBe(FromIp(t.value))])
    <3> DEFINE r == [addr |-> t.value, num |-> ToBe(FromIp(t.value))]
    <3>1. t.value \in Addrs /\ ToBe(FromIp(t.value)) \in 0..(Base * Base - 1)
      BY <2>2, BlockableValue, KeyIsAddress
    <3>2. /\ r.addr \in published /\ chan' = Append(chan, r)
          /\ r \in [addr: Addrs, num: 0..(Base * Base - 1)]
      BY <2>1, <2>2, <3>1 DEF SourceInv
    <3> HIDE DEF r
    <3>3. \A i \in 1..Len(chan') :
             \/ i \in 1..Len(chan) /\ chan'[i] = chan[i]
             \/ chan'[i] = r
      BY <1>0, <3>2
    <3>4. \A i \in 1..Len(chan') : chan'[i].addr \in published
      BY <3>2, <3>3 DEF SourceInv
    <3> QED BY <2>1, <3>4
            DEF SourceInv, BlocksTheIntel, Blockable, intelVars, mapVars, tlsVars
  <2>3. CASE UNCHANGED chan
    BY <2>1, <2>3
       DEF SourceInv, BlocksTheIntel, Blockable, intelVars, mapVars, tlsVars
  <2> QED BY <2>2, <2>3 DEF Forward
<1>b. CASE Drain
  <2>1. /\ chan # <<>> /\ chan' = Tail(chan) /\ Update(Head(chan))
        /\ UNCHANGED <<intelVars, tlsVars, sidecar>>
    BY <1>b DEF Drain
  <2>2. /\ Head(chan) \in [addr: Addrs, num: 0..(Base * Base - 1)]
        /\ Head(chan) = chan[1] /\ 1 \in 1..Len(chan)
        /\ Head(chan).num = ToBe(FromIp(Head(chan).addr))
    BY <2>1, ChanHead
  <2>3. Head(chan).addr \in published
    BY <2>2 DEF SourceInv
  <2>4. \A i \in 1..Len(chan') : i + 1 \in 1..Len(chan) /\ chan'[i] = chan[i + 1]
    BY <1>0, <2>1
  <2>5. \A i \in 1..Len(chan') : chan'[i].addr \in published
    BY <2>4 DEF SourceInv
  <2>6. c2_blocklist' \subseteq published /\ applied' \subseteq c2_blocklist'
    BY <2>1, <2>2, <2>3, UpdateFits DEF SourceInv
  <2> QED BY <2>1, <2>5, <2>6
          DEF SourceInv, BlocksTheIntel, Blockable, intelVars, tlsVars
<1>c. CASE PollError \/ Killed
  <2>1. /\ c2_blocklist' = {} /\ chan' = <<>> /\ applied' = {}
        /\ sidecar'.todo \subseteq sidecar.todo
        /\ UNCHANGED <<feed, edits, published, packets, dropped, slipped>>
    BY <1>c DEF PollError, Killed, MainGone, Waiting, intelVars
  <2> QED BY <2>1 DEF SourceInv, BlocksTheIntel, Blockable
<1>e. CASE \E p \in Packets : Receive(p)
  <2> PICK p \in Packets : Receive(p)
    BY <1>e
  <2>1. UNCHANGED <<feed, published, sidecar, chan, c2_blocklist, applied>>
    BY DEF Receive, intelVars, mapVars
  <2>2. /\ \A a \in Addrs : <<"to", a>> \notin slipped
        /\ dropped \subseteq published /\ c2_blocklist \subseteq published
        /\ applied \subseteq c2_blocklist
    BY DEF SourceInv, BlocksTheIntel
  <2>3. CASE Blocked(p) /\ dropped' = dropped \cup {p.dst} /\ UNCHANGED slipped
    <3>1. p.dst \in published
      BY <2>2, <2>3 DEF Blocked
    <3> QED BY <2>1, <2>2, <2>3, <3>1 DEF SourceInv, BlocksTheIntel, Blockable
  <2>4. CASE /\ ~Blocked(p) /\ UNCHANGED dropped
             /\ slipped' = IF p.parsed = "none" THEN slipped
                        ELSE slipped \cup ({<<"to", p.dst>>, <<"from", p.src>>}
                                              \cap {"to", "from"} \X applied)
    <3> SUFFICES ASSUME NEW a \in Addrs, <<"to", a>> \in slipped'
                 PROVE  FALSE
      BY <2>1, <2>2, <2>4 DEF SourceInv, BlocksTheIntel, Blockable
    <3>1. /\ p.parsed # "none"
          /\ <<"to", a>> \in {<<"to", p.dst>>, <<"from", p.src>>}
                                              \cap {"to", "from"} \X applied
      BY <2>2, <2>4
    <3>2. a = p.dst /\ a \in applied
      BY <3>1
    <3> QED BY <2>2, <2>4, <3>1, <3>2 DEF Blocked
  <2> QED BY <2>3, <2>4 DEF Receive
<1>f. CASE \E t \in Attributes : Edit(t)
  <2> PICK t \in Attributes : Edit(t)
    BY <1>f
  <2>1. /\ published \subseteq published'
        /\ \A u \in feed' : Blockable(u) => u.value \in published'
        /\ UNCHANGED <<c2_blocklist, applied, chan, sidecar, dropped, slipped>>
    BY DEF Edit, mapVars, tlsVars
  <2> QED BY <2>1 DEF SourceInv, BlocksTheIntel, Blockable
<1>g. CASE Fetch \/ EndRound \/ SidecarEnds \/ LogIntel \/ Restart
  <2>1. sidecar'.todo \subseteq feed \/ sidecar'.todo = sidecar.todo
    <3>1. CASE Fetch \/ EndRound \/ SidecarEnds \/ Restart
      BY <3>1 DEF Fetch, EndRound, SidecarEnds, Restart, Waiting
    <3>2. CASE LogIntel
      BY <1>0, <3>2 DEF LogIntel, Sidecars
    <3> QED BY <1>g, <3>1, <3>2
  <2>2. UNCHANGED <<feed, published, c2_blocklist, applied, chan, dropped, slipped>>
    BY <1>g DEF Fetch, EndRound, SidecarEnds, LogIntel, Restart, intelVars, mapVars,
                tlsVars
  <2> QED BY <2>1, <2>2 DEF SourceInv, BlocksTheIntel, Blockable
<1>h. CASE UNCHANGED <<feed, published, c2_blocklist, applied, sidecar, chan,
                       dropped, slipped>>
  BY <1>h DEF SourceInv, BlocksTheIntel, Blockable
<1> QED BY <1>a, <1>b, <1>c, <1>e, <1>f, <1>g, <1>h
        DEF Next, Sidecar, MainLoop, HandleTls, EndPoll, EndDrain, AttachXdp, vars,
            intelVars, mapVars, tlsVars

\* For every set of addresses and every interleaving of MISP, the sidecar, the
\* main loop, packets and restarts: an address reported as blocked is blocked
\* as it is on the wire, and what is dropped was published.
THEOREM IntelIsBlocked == Spec => []BlocksTheIntel
<1>1. Init => SourceInv
  BY DEF Init, SourceInv, BlocksTheIntel, Waiting
<1>2. SourceInv => BlocksTheIntel
  BY DEF SourceInv
<1> QED BY <1>1, <1>2, IntelTypeInit, IntelTypeStep, SourceStep, PTL DEF Spec

-----------------------------------------------------------------------------
(***************************************************************************)
(* Nothing that was logged as blocked gets lost on the way.                *)
(***************************************************************************)

\* What was sent is accounted for before it is logged as well.
Kept(a) == Held(a) \/ a \in gone
SentInv == /\ \A a \in claimed : Kept(a)
           /\ sidecar.at = "log" => Kept(sidecar.sent)
           /\ agent = "up" => gone = {}

\* Whoever does not send leaves the sidecar's last address alone.
LEMMA SentKept ==
    ASSUME SentInv, \A a : Kept(a) => Kept(a)', claimed' \subseteq claimed,
           sidecar' = sidecar \/ sidecar'.at # "log", UNCHANGED <<agent, gone>>
    PROVE  SentInv'
BY DEF SentInv

\* Only a step of the main loop takes an address out of the channel.
LEMMA AccountStep ==
    ASSUME IntelType, ChanOK, SentInv, [Next]_vars
    PROVE  SentInv'
<1>0. /\ chan \in Seq([addr: Addrs, num: 0..(Base * Base - 1)])
      /\ sidecar \in Sidecars
  BY DEF IntelType, TypeOK
<1>a. CASE \E t \in Attributes : Forward(t)
  <2> PICK t \in Attributes : Forward(t)
    BY <1>a
  <2>1. /\ UNCHANGED <<c2_blocklist, refused, claimed, gone, agent>>
        /\ sidecar.at = "send"
    BY DEF Forward, mapVars, claimVars, hostVars
  <2>2. CASE /\ Blockable(t)
             /\ chan' = Append(chan, [addr |-> t.value,
                                      num |-> ToBe(FromIp(t.value))])
             /\ sidecar' = [at |-> "log", todo |-> sidecar.todo \ {t},
                            sent |-> t.value]
    <3> DEFINE r == [addr |-> t.value, num |-> ToBe(FromIp(t.value))]
    <3>1. t.value \in Addrs /\ ToBe(FromIp(t.value)) \in 0..(Base * Base - 1)
      BY <2>2, BlockableValue, KeyIsAddress
    <3>2. /\ r.addr = t.value /\ chan' = Append(chan, r)
          /\ r \in [addr: Addrs, num: 0..(Base * Base - 1)]
      BY <2>2, <3>1
    <3> HIDE DEF r
    <3>3. /\ \A i \in 1..Len(chan) : i \in 1..Len(chan') /\ chan'[i] = chan[i]
          /\ Len(chan') \in 1..Len(chan') /\ chan'[Len(chan')] = r
      BY <1>0, <3>2
    <3>4. \A a : InChan(a) \/ a = t.value => InChan(a)'
      BY <3>2, <3>3 DEF InChan
    <3>5. \A a : Kept(a) \/ a = t.value => Kept(a)'
      BY <2>1, <3>4 DEF Kept, Held
    <3>6. sidecar'.sent = t.value
      BY <2>2
    <3>7. Kept(sidecar.sent)'
      BY <3>5, <3>6
    <3> QED BY <2>1, <3>5, <3>7 DEF SentInv
  <2>3. CASE UNCHANGED chan /\ sidecar' = [sidecar EXCEPT !.todo = @ \ {t}]
    <3>1. sidecar'.at = "send"
      BY <1>0, <2>1, <2>3 DEF Sidecars
    <3>2. \A a : Kept(a) => Kept(a)'
      BY <2>1, <2>3 DEF Kept, Held, InChan
    <3> QED BY <2>1, <3>1, <3>2, SentKept
  <2> QED BY <2>2, <2>3 DEF Forward
<1>b. CASE Drain
  <2>1. /\ chan # <<>> /\ chan' = Tail(chan) /\ Update(Head(chan))
        /\ UNCHANGED <<claimed, gone, sidecar, agent>>
    BY <1>b DEF Drain, claimVars, hostVars
  <2>2. /\ Head(chan) \in [addr: Addrs, num: 0..(Base * Base - 1)]
        /\ Head(chan) = chan[1] /\ 1 \in 1..Len(chan)
        /\ Head(chan).num = ToBe(FromIp(Head(chan).addr))
    BY <2>1, ChanHead
  <2>4. \A i \in 1..Len(chan) : i # 1 => /\ i - 1 \in 1..Len(chan')
                                         /\ chan'[i - 1] = chan[i]
    BY <1>0, <2>1
  <2>5. \A a : InChan(a) => a = Head(chan).addr \/ InChan(a)'
    BY <2>2, <2>4 DEF InChan
  <2>6. /\ c2_blocklist \subseteq c2_blocklist' /\ refused \subseteq refused'
        /\ Head(chan).addr \in c2_blocklist' \cup refused'
    BY <2>1, <2>2, UpdateFits
  <2>7. \A a : Kept(a) => Kept(a)'
    BY <2>1, <2>5, <2>6 DEF Kept, Held
  <2> QED BY <2>1, <2>7, SentKept
<1>c. CASE PollError \/ Killed
  <2>1. /\ gone' = {a \in Addrs : Held(a)} /\ claimed' = claimed
        /\ sidecar' = sidecar \/ sidecar' = Waiting
    BY <1>c DEF PollError, Killed, MainGone
  <2>2. \A a : a \in gone' => Kept(a)'
    BY DEF Kept
  <2>3. claimed \subseteq Addrs /\ (sidecar.at = "log" => sidecar.sent \in Addrs)
    BY DEF IntelType, TypeOK
  <2>4. gone = {}
    BY <1>c DEF PollError, Killed, SentInv
  <2>5. agent' # "up"
    BY <1>c DEF PollError, Killed, MainGone
  <2> QED BY <2>1, <2>2, <2>3, <2>4, <2>5 DEF SentInv, Kept, Waiting
<1>d. CASE LogIntel
  <2>1. /\ sidecar.at = "log" /\ claimed' = claimed \cup {sidecar.sent}
        /\ sidecar' = [sidecar EXCEPT !.at = "send", !.sent = NotAnAddr]
        /\ UNCHANGED <<chan, c2_blocklist, refused, gone, agent>>
    BY <1>d DEF LogIntel, mapVars, hostVars
  <2>2. \A a : Kept(a) => Kept(a)'
    BY <2>1 DEF Kept, Held, InChan
  <2>3. sidecar'.at = "send"
    BY <1>0, <2>1 DEF Sidecars
  <2> QED BY <2>1, <2>2, <2>3 DEF SentInv
<1>e. CASE Restart
  <2>1. claimed' = {} /\ gone' = {} /\ sidecar'.at = "wait"
    BY <1>e DEF Restart, Waiting
  <2> QED BY <2>1 DEF SentInv
<1>f. CASE Fetch \/ EndRound \/ SidecarEnds
  <2>1. /\ UNCHANGED <<claimed, gone, chan, c2_blocklist, refused, agent>>
        /\ sidecar'.at # "log"
    BY <1>f DEF Fetch, EndRound, SidecarEnds, Waiting, mapVars, claimVars, hostVars
  <2>2. \A a : Kept(a) => Kept(a)'
    BY <2>1 DEF Kept, Held, InChan
  <2> QED BY <2>1, <2>2, SentKept
<1>g. CASE UNCHANGED <<claimVars, sidecar, chan, mapVars, agent>>
  <2>1. UNCHANGED <<claimed, gone, sidecar, chan, c2_blocklist, refused, agent>>
    BY <1>g DEF claimVars, mapVars
  <2>2. \A a : Kept(a) => Kept(a)'
    BY <2>1 DEF Kept, Held, InChan
  <2> QED BY <2>1, <2>2, SentKept
<1> QED BY <1>a, <1>b, <1>c, <1>d, <1>e, <1>f, <1>g
        DEF Next, Sidecar, MainLoop, HandleTls, EndPoll, EndDrain, AttachXdp, vars,
            hostVars, Edit, Receive

\* For every capacity of the channel and the map: an address the sidecar logged
\* as blocked is on its way, in the map, was refused by a full map, or went
\* with main, which may be over when the line is written.
THEOREM ClaimsAccounted == Spec => []IntelAccounted
<1>1. Init => SentInv
  BY DEF Init, SentInv, Waiting
<1>2. SentInv => IntelAccounted
  BY DEF SentInv, IntelAccounted, Kept
<1> QED BY <1>1, <1>2, IntelTypeInit, IntelTypeStep, AccountStep, PTL DEF Spec


-----------------------------------------------------------------------------
(***************************************************************************)
(* No hello vanishes.                                                      *)
(***************************************************************************)

\* A record of the ring tells the copied length of the hello it is about: the
\* packets have numbers of their own.
TlsInv ==
    /\ hellos \subseteq [id: Nat, len: Nat]
    /\ \A h \in hellos : h.id <= packets
    /\ \A i \in 1..Len(tls_events) : tls_events[i].id <= packets
    /\ \A h \in hellos : \A i \in 1..Len(tls_events) :
          tls_events[i].id = h.id => tls_events[i].payload_len = Copied(h.len)
    /\ TlsAccounted

\* A packet that is received gets the next number.
LEMMA ReceiveTls ==
    ASSUME IntelType, TlsInv, NEW p \in Packets, Receive(p)
    PROVE  TlsInv'
<1>0. /\ tls_events \in Seq(TlsRecord) /\ packets \in Nat /\ packets' = packets + 1
      /\ UNCHANGED telemetry /\ tlsLost \subseteq tlsLost'
  BY IntelBounds DEF IntelType, TypeOK, Receive
<1>1. /\ hellos \subseteq [id: Nat, len: Nat]
      /\ \A h \in hellos : h.id <= packets
      /\ \A i \in 1..Len(tls_events) : tls_events[i].id <= packets
      /\ \A h \in hellos : \A i \in 1..Len(tls_events) :
            tls_events[i].id = h.id => tls_events[i].payload_len = Copied(h.len)
      /\ TlsAccounted
  BY DEF TlsInv
<1>r. \A i \in 1..Len(tls_events) : tls_events[i] \in TlsRecord
  BY <1>0
<1>2. p.len \in Nat
  <2>1. CASE p \in [src: Addrs, dst: Addrs, parsed: {"none", "ip"}, len: {0}]
    BY <2>1
  <2>2. CASE p \in [src: Addrs, dst: Addrs, parsed: {"hello"}, len: Lengths]
    BY <2>2, IntelBounds
  <2> QED BY <2>1, <2>2 DEF Packets
<1>3. PICK n \in Nat : n = packets'
  BY <1>0
<1>4. /\ \A h \in hellos : h.id # n /\ h.id <= n
      /\ \A i \in 1..Len(tls_events) : tls_events[i].id # n /\ tls_events[i].id <= n
  <2>1. n = packets + 1 /\ packets \in Nat
    BY <1>0, <1>3
  <2>2. ASSUME NEW h \in hellos PROVE h.id # n /\ h.id <= n
    <3>1. h.id \in Nat /\ h.id <= packets
      BY <1>1
    <3> QED BY <2>1, <3>1
  <2>3. ASSUME NEW i \in 1..Len(tls_events)
        PROVE  tls_events[i].id # n /\ tls_events[i].id <= n
    <3>1. tls_events[i].id \in Nat
      BY <1>r DEF TlsRecord
    <3>2. tls_events[i].id <= packets
      BY <1>1
    <3> QED BY <2>1, <3>1, <3>2
  <2> QED BY <2>2, <2>3
<1>5. CASE /\ hellos' = hellos \cup {[id |-> n, len |-> p.len]}
           /\ tls_events' = Append(tls_events,
                      [id |-> n, payload_len |-> PayloadLen(p.len),
                       copied |-> Copied(p.len)])
  <2> DEFINE r == [id |-> n, payload_len |-> PayloadLen(p.len),
                   copied |-> Copied(p.len)]
             g == [id |-> n, len |-> p.len]
  <2>1. /\ r \in TlsRecord /\ r.id = n /\ r.payload_len = Copied(p.len)
        /\ tls_events' = Append(tls_events, r)
    BY <1>2, <1>5, CopiesPayload DEF TlsRecord
  <2>2. /\ hellos' = hellos \cup {g} /\ g \in [id: Nat, len: Nat]
        /\ g.id = n /\ g.len = p.len
    BY <1>2, <1>5
  <2> HIDE DEF r, g
  <2>3. /\ \A i \in 1..Len(tls_events') :
             \/ i \in 1..Len(tls_events) /\ tls_events'[i] = tls_events[i]
             \/ tls_events'[i] = r
        /\ \A i \in 1..Len(tls_events) :
             i \in 1..Len(tls_events') /\ tls_events'[i] = tls_events[i]
        /\ Len(tls_events') \in 1..Len(tls_events')
        /\ tls_events'[Len(tls_events')] = r
    BY <1>0, <2>1
  <2>4. /\ hellos' \subseteq [id: Nat, len: Nat]
        /\ \A h \in hellos' : h.id <= n
    BY <1>1, <1>4, <2>2
  <2>5. \A i \in 1..Len(tls_events') : tls_events'[i].id <= n
    BY <1>4, <2>1, <2>3
  <2>6. \A h \in hellos' : \A i \in 1..Len(tls_events') :
           tls_events'[i].id = h.id => tls_events'[i].payload_len = Copied(h.len)
    <3> SUFFICES ASSUME NEW h \in hellos', NEW i \in 1..Len(tls_events'),
                        tls_events'[i].id = h.id
                 PROVE  tls_events'[i].payload_len = Copied(h.len)
      OBVIOUS
    <3>1. CASE h = g
      BY <1>4, <2>1, <2>2, <2>3, <3>1
    <3>2. CASE h \in hellos
      BY <1>1, <1>4, <2>1, <2>3, <3>2
    <3> QED BY <2>2, <3>1, <3>2
  <2>7. TlsAccounted'
    <3> SUFFICES ASSUME NEW h \in hellos'
                 PROVE  \/ \E i \in 1..Len(tls_events') : tls_events'[i].id = h.id
                        \/ [id |-> h.id, len |-> Copied(h.len)] \in telemetry'
                        \/ \E why \in {"ring_full", "wal", "restart"} :
                              <<h.id, why>> \in tlsLost'
      BY DEF TlsAccounted, Copied
    <3>1. CASE h = g
      BY <2>1, <2>2, <2>3, <3>1
    <3>2. CASE h \in hellos
      BY <1>0, <1>1, <2>3, <3>2 DEF TlsAccounted
    <3> QED BY <2>2, <3>1, <3>2
  <2> QED BY <1>3, <2>4, <2>5, <2>6, <2>7 DEF TlsInv, Copied
<1>6. CASE /\ hellos' = hellos \cup {[id |-> n, len |-> p.len]}
           /\ tlsLost' = tlsLost \cup {<<n, "ring_full">>}
           /\ UNCHANGED tls_events
  <2> DEFINE g == [id |-> n, len |-> p.len]
  <2>1. /\ hellos' = hellos \cup {g} /\ g \in [id: Nat, len: Nat]
        /\ g.id = n /\ g.len = p.len /\ <<g.id, "ring_full">> \in tlsLost'
    BY <1>2, <1>6
  <2> HIDE DEF g
  <2>2. /\ hellos' \subseteq [id: Nat, len: Nat]
        /\ \A h \in hellos' : h.id <= n
        /\ \A i \in 1..Len(tls_events') : tls_events'[i].id <= n
    BY <1>1, <1>4, <1>6, <2>1
  <2>3. \A h \in hellos' : \A i \in 1..Len(tls_events') :
           tls_events'[i].id = h.id => tls_events'[i].payload_len = Copied(h.len)
    BY <1>1, <1>4, <1>6, <2>1
  <2>4. TlsAccounted'
    BY <1>0, <1>1, <1>6, <2>1 DEF TlsAccounted, Copied
  <2> QED BY <1>3, <2>2, <2>3, <2>4 DEF TlsInv, Copied
<1>7. CASE UNCHANGED <<hellos, tls_events, tlsLost>>
  <2>1. TlsAccounted'
    BY <1>0, <1>1, <1>7 DEF TlsAccounted, Copied
  <2> QED BY <1>1, <1>3, <1>4, <1>7, <2>1 DEF TlsInv, Copied
<1> QED BY <1>3, <1>5, <1>6, <1>7 DEF Receive

\* The first record of the ring becomes a line, or its line is lost.
LEMMA HandleTlsTls ==
    ASSUME IntelType, TlsInv, HandleTls
    PROVE  TlsInv'
<1>0. /\ tls_events \in Seq(TlsRecord) /\ tls_events # <<>>
      /\ tls_events' = Tail(tls_events)
      /\ UNCHANGED <<hellos, packets>>
      /\ telemetry \subseteq telemetry' /\ tlsLost \subseteq tlsLost'
  BY DEF IntelType, HandleTls
<1>1. /\ Head(tls_events) = tls_events[1] /\ 1 \in 1..Len(tls_events)
      /\ \A i \in 1..Len(tls_events') :
            i + 1 \in 1..Len(tls_events) /\ tls_events'[i] = tls_events[i + 1]
      /\ \A i \in 1..Len(tls_events) :
            i # 1 => i - 1 \in 1..Len(tls_events') /\ tls_events'[i - 1] = tls_events[i]
  BY <1>0
<1>2. \/ [id |-> tls_events[1].id, len |-> tls_events[1].payload_len] \in telemetry'
      \/ <<tls_events[1].id, "wal">> \in tlsLost'
  BY <1>1 DEF HandleTls
<1>3. TlsAccounted'
  <2> SUFFICES ASSUME NEW h \in hellos
               PROVE  \/ \E i \in 1..Len(tls_events') : tls_events'[i].id = h.id
                      \/ [id |-> h.id, len |-> Copied(h.len)] \in telemetry'
                      \/ \E why \in {"ring_full", "wal", "restart"} :
                            <<h.id, why>> \in tlsLost'
    BY <1>0 DEF TlsAccounted, Copied
  <2>1. CASE tls_events[1].id = h.id
    <3>1. tls_events[1].payload_len = Copied(h.len)
      BY <1>1, <2>1 DEF TlsInv
    <3> QED BY <1>2, <2>1, <3>1
  <2>2. CASE \E i \in 1..Len(tls_events) : tls_events[i].id = h.id /\ i # 1
    BY <1>1, <2>2
  <2> QED BY <1>0, <2>1, <2>2 DEF TlsInv, TlsAccounted
<1> QED BY <1>0, <1>1, <1>3 DEF TlsInv, Copied

\* Main takes the ring with it, and the history names its records.
LEMMA GoneTls ==
    ASSUME IntelType, TlsInv, PollError \/ Killed
    PROVE  TlsInv'
<1>1. /\ tls_events' = <<>> /\ UNCHANGED <<hellos, packets, telemetry>>
      /\ tlsLost' = tlsLost \cup
            {<<tls_events[i].id, "restart">> : i \in 1..Len(tls_events)}
  BY DEF PollError, Killed, MainGone
<1>2. TlsAccounted'
  <2> SUFFICES ASSUME NEW h \in hellos
               PROVE  \/ [id |-> h.id, len |-> Copied(h.len)] \in telemetry
                      \/ \E why \in {"ring_full", "wal", "restart"} :
                            <<h.id, why>> \in tlsLost'
    BY <1>1 DEF TlsAccounted, Copied
  <2>1. CASE \E i \in 1..Len(tls_events) : tls_events[i].id = h.id
    BY <1>1, <2>1
  <2> QED BY <1>1, <2>1 DEF TlsInv, TlsAccounted
<1>3. Len(tls_events') = 0
  BY <1>1
<1> QED BY <1>1, <1>2, <1>3 DEF TlsInv, Copied

\* For every size of the ring: a hello that was let through is in the ring, in
\* the log with the length of what was copied of it, or lost for a reason.
THEOREM HellosAccounted == Spec => []TlsAccounted
<1>1. Init => TlsInv
  BY DEF Init, TlsInv, TlsAccounted
<1>2. IntelType /\ TlsInv /\ [Next]_vars => TlsInv'
  <2> SUFFICES ASSUME IntelType, TlsInv, [Next]_vars PROVE TlsInv'
    OBVIOUS
  <2>1. CASE UNCHANGED <<tls_events, packets, hellos, telemetry, tlsLost>>
    BY <2>1 DEF TlsInv, TlsAccounted, Copied
  <2> QED BY <2>1, ReceiveTls, HandleTlsTls, GoneTls
          DEF Next, Sidecar, MainLoop, EndPoll, EndDrain, AttachXdp, vars,
              tlsVars, Fetch, EndRound, SidecarEnds, LogIntel, Restart, Edit,
              Forward, Drain
<1>3. TlsInv => TlsAccounted
  BY DEF TlsInv
<1> QED BY <1>1, <1>2, <1>3, IntelTypeInit, IntelTypeStep, PTL DEF Spec

=============================================================================
