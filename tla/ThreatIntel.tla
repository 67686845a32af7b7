---------------------------- MODULE ThreatIntel ----------------------------
(***************************************************************************)
(* Threat intelligence on its way to the packets:                          *)
(*                                                                         *)
(*   MISP --> sidecar --> mpsc --> main loop --> c2_blocklist --> XDP      *)
(*            (poll,      (tx,     (drain)       (hash map)       verdict  *)
(*             every 5')   rx)                                    |        *)
(*            WAL <------ main loop <--- tls_events ring <--------+        *)
(*                                                                         *)
(* An address travels as a number and ends up as the bytes of a map key,   *)
(* which the XDP program compares with the bytes on the wire.  Addresses   *)
(* have two octets here, each below Base; the host is little-endian.       *)
(***************************************************************************)
EXTENDS Naturals, Sequences, FiniteSets

CONSTANTS
    Base,        \* values of an octet (256)
    Addrs,       \* IPv4 addresses, as the octets on the wire
    NotAnAddr,   \* a value that does not parse as an IPv4 address
    ChanCap,     \* capacity of the indicator channel (100)
    MapCap,      \* capacity of c2_blocklist (100000)
    TlsSlots,    \* records the tls_events ring holds
    PayloadCap,  \* bytes of a hello that are copied (128)
    Lengths,     \* lengths of the hellos of the instance
    MaxEdits,    \* bound: changes of what MISP publishes
    MaxPackets,  \* bound: packets received
    MaxCrashes   \* bound: times the agent goes down

ASSUME AddrsAssumption == /\ Base \in Nat \ {0}
                          /\ Addrs \subseteq (0..Base-1) \X (0..Base-1)
ASSUME IntelBounds ==
    /\ NotAnAddr \notin Addrs
    /\ ChanCap \in Nat \ {0} /\ MapCap \in Nat /\ TlsSlots \in Nat
    /\ PayloadCap \in Nat \ {0} /\ Lengths \subseteq Nat
    /\ MaxEdits \in Nat /\ MaxPackets \in Nat /\ MaxCrashes \in Nat

VARIABLES
    feed,         \* attributes MISP publishes
    sidecar,      \* the sidecar task: [at, todo, sent], sent being logged
    chan,         \* the indicator channel: [addr, num]
    loop,         \* the main loop: "poll" or "drain"
    agent,        \* "up", "draining" (main returned), "down"
    attached,     \* does the XDP program see the packets of an interface?
    c2_blocklist, \* keys of the map
    tls_events,   \* the ring of TLS records
    edits, packets, crashes,
    \* history
    published,    \* addresses MISP ever published
    claimed,      \* addresses this agent logged as blocked
    gone,         \* addresses main took with it, in the channel or in the map
    applied,      \* addresses whose update this agent reported as done
    refused,      \* addresses whose update failed
    dropped,      \* addresses a packet to which was dropped
    slipped,      \* <<"to" or "from", a>>: an applied address whose packet passed
    hellos,       \* hellos that were let through: [id, len]
    telemetry,    \* TLS lines of the log: [id, len]
    tlsLost       \* <<id, why>>: hellos that left no line

intelVars == <<feed, edits, published>>
hostVars  == <<agent, attached, crashes>>
claimVars == <<claimed, gone>>
mapVars   == <<c2_blocklist, applied, refused>>
tlsVars   == <<tls_events, packets, dropped, slipped, hellos, telemetry, tlsLost>>
vars == <<intelVars, hostVars, mapVars, tlsVars, claimVars, sidecar, chan, loop>>

Attributes == [type: {"ip-dst"}, value: Addrs \cup {NotAnAddr}]
                 \cup {[type |-> "yara", value |-> NotAnAddr]}
Waiting == [at |-> "wait", todo |-> {}, sent |-> NotAnAddr]

-----------------------------------------------------------------------------
(***************************************************************************)
(* From the text of an indicator to the key of the map.                    *)
(***************************************************************************)

\* u32::from(Ipv4Addr): the first octet is the most significant.
FromIp(a) == a[1] * Base + a[2]

\* Faulty variant: the conversion to network order is missing.
ToBeMissing(n) == n

\* u32::to_be on a little-endian host swaps the octets.
ToBe(n) == (n % Base) * Base + n \div Base

\* u32::to_ne_bytes on a little-endian host: the least significant octet first.
ToNeBytes(n) == <<n % Base, n \div Base>>

\* Only an ip-dst attribute that parses is sent on; a YARA rule is only logged.
Blockable(t) == t.type = "ip-dst" /\ t.value # NotAnAddr

-----------------------------------------------------------------------------
(***************************************************************************)
(* MISP and the sidecar.                                                   *)
(***************************************************************************)

\* An analyst publishes an attribute, or withdraws it.
Edit(t) ==
    /\ edits < MaxEdits
    /\ edits' = edits + 1
    /\ feed' = IF t \in feed THEN feed \ {t} ELSE feed \cup {t}
    /\ published' = published \cup {u.value : u \in {v \in feed' : Blockable(v)}}
    /\ UNCHANGED <<hostVars, mapVars, tlsVars, sidecar, chan, loop, claimVars>>

\* curl succeeds and its answer parses: every round sends the whole feed.  A
\* request that fails changes nothing, and the sidecar sleeps again.
Fetch ==
    /\ agent # "down" /\ sidecar.at = "wait"
    /\ sidecar' = [at |-> "send", todo |-> feed, sent |-> NotAnAddr]
    /\ UNCHANGED <<intelVars, hostVars, mapVars, tlsVars, chan, loop, claimVars>>

\* Faulty variant: try_send, whose failure is not looked at.
ForwardTry(t) ==
    /\ sidecar.at = "send" /\ t \in sidecar.todo
    /\ \/ /\ Blockable(t) /\ agent = "up"
          /\ chan' = IF Len(chan) = ChanCap THEN chan
                     ELSE Append(chan, [addr |-> t.value,
                                        num |-> ToBe(FromIp(t.value))])
          /\ sidecar' = [at |-> "log", todo |-> sidecar.todo \ {t}, sent |-> t.value]
       \/ /\ ~Blockable(t) /\ agent # "down"
          /\ sidecar' = [sidecar EXCEPT !.todo = @ \ {t}]
          /\ UNCHANGED chan
    /\ UNCHANGED <<intelVars, hostVars, mapVars, tlsVars, loop, claimVars>>

\* One attribute of the answer: the send waits while the channel is full.
Forward(t) ==
    /\ sidecar.at = "send" /\ t \in sidecar.todo
    /\ \/ /\ Blockable(t) /\ agent = "up" /\ Len(chan) < ChanCap
          /\ chan' = Append(chan, [addr |-> t.value,
                                   num |-> ToBe(FromIp(t.value))])
          /\ sidecar' = [at |-> "log", todo |-> sidecar.todo \ {t}, sent |-> t.value]
       \/ /\ ~Blockable(t) /\ agent # "down"
          /\ sidecar' = [sidecar EXCEPT !.todo = @ \ {t}]
          /\ UNCHANGED chan
    /\ UNCHANGED <<intelVars, hostVars, mapVars, tlsVars, loop, claimVars>>

\* The lines about it, in the log, where an error is ignored, and on the
\* console; main may have returned since the send.
LogIntel ==
    /\ agent # "down" /\ sidecar.at = "log"
    /\ claimed' = claimed \cup {sidecar.sent}
    /\ sidecar' = [sidecar EXCEPT !.at = "send", !.sent = NotAnAddr]
    /\ UNCHANGED <<intelVars, hostVars, mapVars, tlsVars, chan, loop, gone>>

\* Main has dropped the receiver: the send fails and the sidecar ends.
SidecarEnds ==
    /\ agent = "draining" /\ sidecar.at = "send"
    /\ \E t \in sidecar.todo : Blockable(t)
    /\ sidecar' = [at |-> "ended", todo |-> {}, sent |-> NotAnAddr]
    /\ UNCHANGED <<intelVars, hostVars, mapVars, tlsVars, chan, loop, claimVars>>

\* Faulty variant: the sidecar returns after one round.
EndRoundReturns ==
    /\ agent # "down" /\ sidecar.at = "send" /\ sidecar.todo = {}
    /\ sidecar' = [at |-> "ended", todo |-> {}, sent |-> NotAnAddr]
    /\ UNCHANGED <<intelVars, hostVars, mapVars, tlsVars, chan, loop, claimVars>>

\* The round ends with the online YARA feed, of which only a line is logged,
\* and five minutes of sleep.
EndRound ==
    /\ agent # "down" /\ sidecar.at = "send" /\ sidecar.todo = {}
    /\ sidecar' = Waiting
    /\ UNCHANGED <<intelVars, hostVars, mapVars, tlsVars, chan, loop, claimVars>>

-----------------------------------------------------------------------------
(***************************************************************************)
(* The main loop.                                                          *)
(***************************************************************************)

\* handle_tls_event: a line of the log, whose failure is only reported.
HandleTls ==
    /\ agent = "up" /\ loop = "poll" /\ tls_events # <<>>
    /\ LET e == Head(tls_events) IN
          \/ /\ telemetry' = telemetry \cup
                   {[id |-> e.id, len |-> e.payload_len]}
             /\ UNCHANGED tlsLost
          \/ /\ tlsLost' = tlsLost \cup {<<e.id, "wal">>}
             /\ UNCHANGED telemetry
    /\ tls_events' = Tail(tls_events)
    /\ UNCHANGED <<intelVars, hostVars, mapVars, packets, dropped, slipped,
                   hellos, sidecar, chan, loop, claimVars>>

\* ringbuf.poll returns; what came in meanwhile waits for the next turn.
EndPoll ==
    /\ agent = "up" /\ loop = "poll"
    /\ loop' = "drain"
    /\ UNCHANGED <<intelVars, hostVars, mapVars, tlsVars, sidecar, chan, claimVars>>

\* c2_blocklist.update: a full map takes only keys it has already.
Update(m) ==
    LET key == ToNeBytes(m.num) IN
    \/ /\ key \in c2_blocklist \/ Cardinality(c2_blocklist) < MapCap
       /\ c2_blocklist' = c2_blocklist \cup {key}
       /\ applied' = applied \cup {m.addr}
       /\ UNCHANGED refused
    \/ /\ key \notin c2_blocklist /\ Cardinality(c2_blocklist) = MapCap
       /\ refused' = refused \cup {m.addr}
       /\ UNCHANGED <<c2_blocklist, applied>>

\* while let Ok(c2_ip) = rx_misp.try_recv()
Drain ==
    /\ agent = "up" /\ loop = "drain" /\ chan # <<>>
    /\ Update(Head(chan))
    /\ chan' = Tail(chan)
    /\ UNCHANGED <<intelVars, hostVars, tlsVars, sidecar, loop, claimVars>>

EndDrain ==
    /\ agent = "up" /\ loop = "drain" /\ chan = <<>>
    /\ loop' = "poll"
    /\ UNCHANGED <<intelVars, hostVars, mapVars, tlsVars, sidecar, chan, claimVars>>

-----------------------------------------------------------------------------
(***************************************************************************)
(* xdp_c2_inspector.  `parsed' says how far the headers of a packet are    *)
(* complete and of the right kind: "none" below a whole IPv4 header, "ip"  *)
(* without a TLS handshake to port 443, "hello" with one.                  *)
(***************************************************************************)
Packets == [src: Addrs, dst: Addrs, parsed: {"none", "ip"}, len: {0}]
              \cup [src: Addrs, dst: Addrs, parsed: {"hello"}, len: Lengths]

\* Faulty variant: the length of the payload is not cut at the buffer's.
PayloadLenRaw(len) == len

\* payload_len, and how many bytes the copying loop copies.
PayloadLen(len) == IF len > PayloadCap THEN PayloadCap ELSE len
Copied(len) == Cardinality({i \in 0..PayloadCap-1 : i + 1 <= len})

\* The destination's bytes are looked up as they are on the wire.
Blocked(p) == p.parsed # "none" /\ p.dst \in c2_blocklist

Receive(p) ==
    /\ agent = "up" /\ attached /\ packets < MaxPackets
    /\ packets' = packets + 1
    /\ \/ /\ Blocked(p)    \* XDP_DROP
          /\ dropped' = dropped \cup {p.dst}
          /\ UNCHANGED slipped
       \/ /\ ~Blocked(p)   \* XDP_PASS
          /\ slipped' = IF p.parsed = "none" THEN slipped
                        ELSE slipped \cup ({<<"to", p.dst>>, <<"from", p.src>>}
                                              \cap {"to", "from"} \X applied)
          /\ UNCHANGED dropped
    /\ \/ /\ p.parsed = "hello" /\ ~Blocked(p)
          /\ hellos' = hellos \cup {[id |-> packets', len |-> p.len]}
          /\ \/ /\ Len(tls_events) < TlsSlots
                /\ tls_events' = Append(tls_events,
                      [id |-> packets', payload_len |-> PayloadLen(p.len),
                       copied |-> Copied(p.len)])
                /\ UNCHANGED tlsLost
             \/ /\ Len(tls_events) = TlsSlots
                /\ tlsLost' = tlsLost \cup {<<packets', "ring_full">>}
                /\ UNCHANGED tls_events
       \/ /\ p.parsed # "hello" \/ Blocked(p)
          /\ UNCHANGED <<hellos, tls_events, tlsLost>>
    /\ UNCHANGED <<intelVars, hostVars, mapVars, telemetry, sidecar, chan, loop,
                   claimVars>>

\* The agent loads the program and attaches it to no interface: somebody else
\* has to.
AttachXdp ==
    /\ agent = "up" /\ ~attached
    /\ attached' = TRUE
    /\ UNCHANGED <<intelVars, agent, crashes, mapVars, tlsVars, sidecar, chan,
                   loop, claimVars>>

-----------------------------------------------------------------------------
\* Is the address on its way, in the map, or was it refused by it?
InChan(a) == \E i \in 1..Len(chan) : chan[i].addr = a
Held(a)   == InChan(a) \/ a \in c2_blocklist \/ a \in refused

\* The maps and the channel go with main.
MainGone(state) ==
    /\ crashes < MaxCrashes
    /\ agent' = state /\ crashes' = crashes + 1
    /\ attached' = FALSE /\ c2_blocklist' = {} /\ tls_events' = <<>>
    /\ chan' = <<>> /\ loop' = "poll"
    /\ gone' = {a \in Addrs : Held(a)} /\ applied' = {} /\ refused' = {}
    /\ tlsLost' = tlsLost \cup
          {<<tls_events[i].id, "restart">> : i \in 1..Len(tls_events)}
    /\ UNCHANGED <<intelVars, packets, dropped, slipped, hellos, telemetry, claimed>>

\* ringbuf.poll(..)? fails; tasks run on until the runtime has shut down.
PollError ==
    /\ agent = "up" /\ loop = "poll"
    /\ MainGone("draining")
    /\ UNCHANGED sidecar

Killed ==
    /\ agent = "up"
    /\ MainGone("down")
    /\ sidecar' = Waiting

\* The runtime ends, and systemd starts the agent again.
Restart ==
    /\ agent # "up"
    /\ agent' = "up" /\ sidecar' = Waiting /\ claimed' = {} /\ gone' = {}
    /\ UNCHANGED <<intelVars, attached, crashes, mapVars, tlsVars, chan, loop>>

Init ==
    /\ feed = {} /\ edits = 0 /\ published = {}
    /\ sidecar = Waiting /\ chan = <<>> /\ loop = "poll"
    /\ agent = "up" /\ attached = FALSE /\ crashes = 0
    /\ c2_blocklist = {} /\ claimed = {} /\ gone = {} /\ applied = {} /\ refused = {}
    /\ tls_events = <<>> /\ packets = 0 /\ hellos = {} /\ telemetry = {}
    /\ tlsLost = {} /\ dropped = {} /\ slipped = {}

Sidecar == \/ Fetch \/ EndRound \/ SidecarEnds \/ LogIntel
           \/ \E t \in Attributes : Forward(t)
MainLoop == HandleTls \/ EndPoll \/ Drain \/ EndDrain

Next == \/ Sidecar \/ MainLoop \/ AttachXdp \/ PollError \/ Killed \/ Restart
        \/ \E t \in Attributes : Edit(t)
        \/ \E p \in Packets : Receive(p)

Spec == Init /\ [][Next]_vars

\* The tasks keep running, systemd restarts the agent, MISP does not fail for
\* ever, and poll returns: the rings do not fill as fast as they are emptied.
FairSpec == Spec /\ WF_vars(Sidecar) /\ WF_vars(MainLoop) /\ WF_vars(EndPoll)
                 /\ WF_vars(Restart)

-----------------------------------------------------------------------------
Keys == (0..Base-1) \X (0..Base-1)
Sidecars == [at: {"wait", "send", "log", "ended"}, todo: SUBSET Attributes,
             sent: Addrs \cup {NotAnAddr}]

\* Type invariant: the channel, the map and the TLS ring stay within their
\* capacities and every record tells as many bytes as it has.
TypeOK ==
    /\ feed \subseteq Attributes /\ edits \in 0..MaxEdits
    /\ sidecar \in Sidecars /\ (sidecar.at = "log" => sidecar.sent \in Addrs)
    /\ chan \in Seq([addr: Addrs, num: 0..(Base * Base - 1)])
    /\ Len(chan) <= ChanCap
    /\ loop \in {"poll", "drain"} /\ agent \in {"up", "draining", "down"}
    /\ attached \in BOOLEAN /\ crashes \in 0..MaxCrashes
    /\ c2_blocklist \subseteq Keys /\ Cardinality(c2_blocklist) <= MapCap
    /\ Len(tls_events) <= TlsSlots /\ packets \in 0..MaxPackets
    /\ \A i \in 1..Len(tls_events) :
          tls_events[i].payload_len = tls_events[i].copied
    /\ UNION {published, claimed, gone, applied, refused, dropped} \subseteq Addrs

\* The XDP program drops what it was said to drop and nothing else: once the
\* main loop has reported an address as blocked, no whole IPv4 packet to it
\* passes (from text to number to map key to the bytes on the wire the address
\* stays the same), and a packet is dropped only for an address that MISP
\* published at some time.  (An address that was withdrawn stays blocked: the
\* map is never pruned.)
BlocksTheIntel ==
    /\ \A a \in Addrs : <<"to", a>> \notin slipped
    /\ dropped \subseteq published

\* "Live Intel Synced: Blocked IP": an address the sidecar logged as blocked is
\* on its way, in the map, or was refused by a map that is full, or all of that
\* went with main; main may have returned before the line was written.
IntelAccounted == \A a \in claimed : Held(a) \/ a \in gone

\* Every TLS hello that was let through is in the ring, in the log with the
\* length of what was copied of it, or lost: with a full ring, a failed append
\* or the agent.
TlsAccounted ==
    \A h \in hellos :
        \/ \E i \in 1..Len(tls_events) : tls_events[i].id = h.id
        \/ [id |-> h.id, len |-> Copied(h.len)] \in telemetry
        \/ \E why \in {"ring_full", "wal", "restart"} : <<h.id, why>> \in tlsLost

\* An address that MISP goes on publishing ends up in the map for good, or is
\* refused because the map is full, whatever restarts come in between.
FeedApplied ==
    \A a \in Addrs :
        <>[]([type |-> "ip-dst", value |-> a] \in feed)
            => <>[](a \in c2_blocklist \/ a \in refused)

-----------------------------------------------------------------------------
\* docs/FULL_DOCUMENTATION.md: the XDP program "drops malicious C2 traffic
\* before it even reaches the Linux TCP stack": nothing that is received from
\* an address reported as blocked gets through.
C2TrafficDropped == slipped = {}

=============================================================================
