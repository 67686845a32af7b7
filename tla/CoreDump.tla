------------------------------ MODULE CoreDump ------------------------------
(***************************************************************************)
(* The core dump blob: how the carver writes one (package_core_dump) and   *)
(* how the analysis reads it (ParsedCoreDump::from_file).                  *)
(*                                                                         *)
(* A blob is a sequence of cells, one per field of the format and one per  *)
(* byte of the variable parts; a cell holds a number below Width.  A cut   *)
(* or changed blob is again such a sequence, so the reader can be asked    *)
(* about every one of them.                                                *)
(*                                                                         *)
(*   header | register length, registers | per region:                     *)
(*                             record | path length, path | memory         *)
(***************************************************************************)
EXTENDS Naturals, SequencesExt

CONSTANTS
    Width,  \* numbers a cell can hold: 0..Width-1
    Magic   \* the cell a blob begins with

ASSUME CellAssumption == Width \in Nat \ {0} /\ Magic \in 0..(Width - 1)

HeaderLen == 4  \* magic, pid, vma_count, checksum
RecordLen == 3  \* start, perms_flags, data_len

\* The dumps the format has room for: every length fits into its field.
Cells   == 0..(Width - 1)
Texts   == {s \in Seq(Cells) : Len(s) < Width}
Regions == [start: Cells, perms: Cells, path: Texts, data: Texts]
Dumps   == [pid: Cells, regs: Texts,
            regions: {s \in Seq(Regions) : Len(s) < Width}]

-----------------------------------------------------------------------------
\* All the memory of a dump, region after region.
Memory(regions) == FlattenSeq([i \in DOMAIN regions |-> regions[i].data])

\* compute_checksum: FNV-1a over all carved memory, here modulo Width.
Checksum(regions) ==
    FoldLeft(LAMBDA h, d : ((h + d) * 3) % Width, 1, Memory(regions))

\* A region that was carved: its record, its path and its memory.
RegionCells(r) ==
    <<r.start, r.perms, Len(r.data)>> \o <<Len(r.path)>> \o r.path \o r.data

\* package_core_dump.
Serialize(d) ==
    <<Magic, d.pid, Len(d.regions), Checksum(d.regions)>>
    \o <<Len(d.regs)>> \o d.regs
    \o FlattenSeq([i \in DOMAIN d.regions |-> RegionCells(d.regions[i])])

-----------------------------------------------------------------------------
Rejected == [ok |-> FALSE]

\* n cells from offset off, counted from 0.
Slice(b, off, n) == SubSeq(b, off + 1, off + n)

\* Faulty variant: memory that is cut short is taken as it is.
ReadRegionShort(b, st) ==
    IF ~st.ok \/ st.off + RecordLen + 1 > Len(b) THEN Rejected
    ELSE LET plen == b[st.off + 4]
             at   == st.off + RecordLen + 1
             dlen == IF at + plen + b[st.off + 3] > Len(b)
                     THEN Len(b) - (at + plen) ELSE b[st.off + 3]
         IN  IF at + plen > Len(b) THEN Rejected
             ELSE [ok |-> TRUE, off |-> at + plen + dlen,
                   regions |-> Append(st.regions,
                      [start |-> b[st.off + 1], perms |-> b[st.off + 2],
                       path  |-> Slice(b, at, plen),
                       data  |-> Slice(b, at + plen, dlen)])]

\* One turn of the loop over the regions, from the state st of the reader:
\* the record, the path and the memory each have to fit.
ReadRegion(b, st) ==
    IF ~st.ok \/ st.off + RecordLen + 1 > Len(b) THEN Rejected
    ELSE LET dlen == b[st.off + 3]
             plen == b[st.off + 4]
             at   == st.off + RecordLen + 1
         IN  IF at + plen + dlen > Len(b) THEN Rejected
             ELSE [ok |-> TRUE, off |-> at + plen + dlen,
                   regions |-> Append(st.regions,
                      [start |-> b[st.off + 1], perms |-> b[st.off + 2],
                       path  |-> Slice(b, at, plen),
                       data  |-> Slice(b, at + plen, dlen)])]

\* The reader before the first region: header, magic and registers.
ReadHeader(b) ==
    IF \/ Len(b) < HeaderLen + 1 \/ b[1] # Magic
       \/ HeaderLen + 1 + b[HeaderLen + 1] > Len(b)
    THEN Rejected
    ELSE [ok |-> TRUE, off |-> HeaderLen + 1 + b[HeaderLen + 1],
          regions |-> <<>>]

\* from_file.  The checksum is read and handed on, and never compared; cells
\* after the last region are not looked at.
Parse(b) ==
    LET first == ReadHeader(b)
        state[i \in 0..(Width - 1)] ==
            IF i = 0 THEN first ELSE ReadRegion(b, state[i - 1])
    IN  IF ~first.ok \/ ~state[b[3]].ok THEN Rejected
        ELSE [ok |-> TRUE,
              dump |-> [pid |-> b[2],
                        regs |-> Slice(b, HeaderLen + 1, b[HeaderLen + 1]),
                        regions |-> state[b[3]].regions],
              checksum |-> b[4]]

=============================================================================
