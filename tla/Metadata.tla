------------------------------ MODULE Metadata ------------------------------
(***************************************************************************)
(* The metadata of a live patch: the bytes that ulp packer writes, and the *)
(* parser that the ulp tool and libpulp.so share (parse_metadata_from_mem).*)
(*                                                                         *)
(* A file is a sequence of bytes. A number takes NumLen of them, an        *)
(* address AddrLen and an id IdLen (4, 8 and 32 in the code); a byte has   *)
(* Base values. Strings are sequences of bytes without the terminator.     *)
(***************************************************************************)
EXTENDS Naturals, Sequences, SequencesExt

CONSTANTS Base, NumLen, AddrLen, IdLen,
          BufLen               \* ULP_METADATA_BUF_LEN

ASSUME MetadataAssumption ==
    /\ Base > 1 /\ NumLen > 1 /\ AddrLen > 0 /\ IdLen > 0
    /\ {Base, NumLen, AddrLen, IdLen, BufLen} \subseteq Nat

VARIABLES
    buf,        \* the memory that is parsed
    phase,      \* what the parser reads next
    cursor,     \* the static variable cur
    count,      \* the local variable c; the loops count down in left
    left,       \* turns left of the loop over units, dependencies, references
    ulp         \* the struct ulp_metadata that is filled

parserVars == <<buf, phase, cursor, count, left, ulp>>

(* The number n without its lowest 0 to size bytes. *)
Shifted(n, size) ==
    LET q[i \in 0..size] == IF i = 0 THEN n ELSE q[i - 1] \div Base IN q

Fits(n, size) == Shifted(n, size)[size] = 0

(* The number of so many bytes, little endian, and back. *)
Bytes(n, size) == [i \in 1..size |-> Shifted(n, size)[i - 1] % Base]

Value(s) ==
    LET v[i \in 0..Len(s)] == IF i = 0 THEN 0 ELSE s[Len(s) + 1 - i] + Base * v[i - 1]
    IN  v[Len(s)]

(* A string behind its length, with the terminator or without. *)
Unterminated(s) == Bytes(Len(s), NumLen) \o s

Terminated(s) == Unterminated(Append(s, 0))

(* What a C program sees of the bytes of a string. *)
CString(s) ==
    SubSeq(s, 1, CHOOSE n \in 0..Len(s) : /\ \A k \in 1..n : s[k] # 0
                                          /\ n = Len(s) \/ s[n + 1] = 0)

NoMetadata == [type |-> 0, patch_id |-> <<>>, so_filename |-> <<>>, build_id |-> <<>>,
               name |-> <<>>, units |-> <<>>, deps |-> <<>>, nrefs |-> 0, refs |-> <<>>]

-----------------------------------------------------------------------------
(* The writer. *)

UnitBytes(u) ==
    Terminated(u.old_fname) \o Terminated(u.new_fname) \o Bytes(u.old_faddr, AddrLen)

UnitsBytes(us) == FlattenSeq([i \in DOMAIN us |-> UnitBytes(us[i])])

RefBytes(r) ==
    Terminated(r.target_name) \o Terminated(r.reference_name)
      \o Bytes(r.target_offset, AddrLen) \o Bytes(r.patch_offset, AddrLen) \o <<r.tls>>

RefsBytes(rs) == FlattenSeq([i \in DOMAIN rs |-> RefBytes(rs[i])])

Header(type, m) == <<type>> \o m.patch_id \o Unterminated(m.build_id)

(* Section .ulp. The path of the container is added when it is extracted.  *)
create_patch_metadata_file(m) ==
    Header(1, m) \o Terminated(m.name)
      \o Bytes(Len(m.units), NumLen) \o UnitsBytes(m.units)
      \o Bytes(Len(m.deps), NumLen) \o FlattenSeq(m.deps)
      \o Bytes(Len(m.refs), NumLen) \o RefsBytes(m.refs)

(* Section .ulp.rev: the name is written without its terminator. *)
write_reverse_patch(m) == Header(2, m) \o Unterminated(m.name)

(* The metadata with the path of the container behind type and id. *)
extract_ulp_from_so_to_mem(section, path) ==
    SubSeq(section, 1, 1 + IdLen) \o Terminated(path)
      \o SubSeq(section, 2 + IdLen, Len(section))

-----------------------------------------------------------------------------
(* The parser. A reading state s has the cursor, the length c that was     *)
(* read last, whether every read was long enough, and the last value.      *)

Avail(s, size) == IF size <= Len(buf) - s.cur THEN size ELSE Len(buf) - s.cur

Got(s, size) == SubSeq(buf, s.cur + 1, s.cur + Avail(s, size))

read_from_mem(s, size, need) ==
    [cur |-> s.cur + Avail(s, size), c |-> s.c,
     ok |-> s.ok /\ Avail(s, size) >= need, val |-> Got(s, size)]

(* A length. The bytes of c that a short read does not reach keep their    *)
(* value, and the check only wants one byte.                               *)
ReadLength(s, need) ==
    [read_from_mem(s, NumLen, need) EXCEPT
       !.c = Value(Got(s, NumLen)
                   \o SubSeq(Bytes(s.c, NumLen), Avail(s, NumLen) + 1, NumLen))]

ReadField(s, need) == LET l == ReadLength(s, need) IN read_from_mem(l, l.c, l.c)

Reading == [cur |-> cursor, c |-> count, ok |-> TRUE, val |-> <<>>]

(* The parser goes on with phase next, or gives up with EINVALIDULP. *)
Advance(s, next, n, m) ==
    /\ cursor' = s.cur
    /\ count' = s.c
    /\ phase' = IF s.ok THEN next ELSE "invalid"
    /\ left' = n
    /\ ulp' = IF s.ok THEN m ELSE ulp
    /\ UNCHANGED buf

(* The field c is not initialised. *)
StartParse(src) ==
    /\ buf' = src
    /\ phase' = "header"
    /\ cursor' = 0
    /\ count' \in {0, Value([i \in 1..NumLen |-> Base - 1])}
    /\ left' = 0

(* Type, id, path of the container, build id and name of the library. A    *)
(* reverse patch has nothing else. The path must not be empty.             *)
ParseHeader ==
    /\ phase = "header"
    /\ LET type == read_from_mem(Reading, 1, 1)
           id == read_from_mem(type, IdLen, IdLen)
           so == ReadField(id, 1)
           path == IF so.ok THEN CString(so.val) ELSE <<>>
           build == ReadField(so, 1)
           s == ReadField(build, 1)
       IN  Advance([s EXCEPT !.ok = s.ok /\ path # <<>>],
                   IF type.val = <<2>> THEN "done" ELSE "nunits", 0,
                   [ulp EXCEPT !.type = type.val[1], !.patch_id = id.val,
                               !.so_filename = path, !.build_id = build.val,
                               !.name = CString(s.val), !.units = <<>>])

(* obj->nunits was zeroed, so a short read keeps no old bytes. Neither   *)
(* this number nor that of the references is read into c.                  *)
ParseUnitCount ==
    /\ phase = "nunits"
    /\ LET s == ReadLength([Reading EXCEPT !.c = 0], 1)
       IN  Advance([s EXCEPT !.c = count], IF s.c = 0 THEN "ndeps" ELSE "unit", s.c, ulp)

ParseUnit ==
    /\ phase = "unit"
    /\ LET old == ReadField(Reading, 1)
           new == ReadField(old, 1)
           s == read_from_mem(new, AddrLen, 1)
           u == [old_fname |-> CString(old.val), new_fname |-> CString(new.val),
                 old_faddr |-> Value(s.val)]
       IN  Advance(s, IF left = 1 THEN "ndeps" ELSE "unit", left - 1,
                   [ulp EXCEPT !.units = Append(ulp.units, u)])

ParseDepCount ==
    /\ phase = "ndeps"
    /\ LET s == ReadLength(Reading, 1)
       IN  Advance(s, IF s.c = 0 THEN "nrefs" ELSE "dep", s.c, ulp)

(* A list that is found in ulp is extended behind prev_dep (prev_ref),     *)
(* which is NULL in the first turn.                                        *)
ParseDep ==
    /\ phase = "dep"
    /\ LET s == read_from_mem(Reading, IdLen, IdLen)
       IN  Advance(s, IF left = count /\ ulp.deps # <<>> THEN "segv"
                      ELSE IF left = 1 THEN "nrefs" ELSE "dep", left - 1,
                   [ulp EXCEPT !.deps = Append(ulp.deps, s.val)])

\* Mutant of ParseRefCount: a number of which nothing was read is 0.
ParseRefCount_unchecked ==
    /\ phase = "nrefs"
    /\ LET s == ReadLength([Reading EXCEPT !.c = 0], 0)
       IN  Advance([s EXCEPT !.c = count], IF s.c = 0 THEN "done" ELSE "ref", s.c,
                   [ulp EXCEPT !.nrefs = s.c])

ParseRefCount ==
    /\ phase = "nrefs"
    /\ LET s == ReadLength(Reading, NumLen)
       IN  Advance([s EXCEPT !.c = count], IF s.c = 0 THEN "done" ELSE "ref", s.c,
                   [ulp EXCEPT !.nrefs = s.c])

ParseRef ==
    /\ phase = "ref"
    /\ LET target == ReadField(Reading, NumLen)
           ref == ReadField(target, NumLen)
           toff == read_from_mem(ref, AddrLen, AddrLen)
           poff == read_from_mem(toff, AddrLen, AddrLen)
           s == read_from_mem(poff, 1, 1)
           r == [target_name |-> CString(target.val), reference_name |-> CString(ref.val),
                 target_offset |-> Value(toff.val), patch_offset |-> Value(poff.val),
                 tls |-> s.val[1]]
       IN  Advance(s, IF left = ulp.nrefs /\ ulp.refs # <<>> THEN "segv"
                      ELSE IF left = 1 THEN "done" ELSE "ref", left - 1,
                   [ulp EXCEPT !.refs = Append(ulp.refs, r)])

(* parse_metadata_from_mem *)
Parse ==
    \/ ParseHeader
    \/ ParseUnitCount
    \/ ParseUnit
    \/ ParseDepCount
    \/ ParseDep
    \/ ParseRefCount
    \/ ParseRef

Parsing == phase \in {"header", "nunits", "unit", "ndeps", "dep", "nrefs", "ref"}

=============================================================================
