------------------------------- MODULE Packer -------------------------------
(***************************************************************************)
(* ulp packer: it reads a description line by line, resolves the symbols   *)
(* and embeds the sections .ulp, .ulp.comments and .ulp.rev into the       *)
(* container. Then ulp trigger extracts the metadata, parses it, writes it *)
(* to the buffer in libpulp.so, which parses it again.                     *)
(*                                                                         *)
(* A line is a record. Its text is a number, so that the digest of a       *)
(* description is a number too and different descriptions have different   *)
(* digests; its kind is what the first character says.                     *)
(***************************************************************************)
EXTENDS Metadata

CONSTANTS
    Line,           \* the lines a description may have
    MaxLines,       \* bound on their number
    TargetSymbols,  \* offsets by name of the target library
    PatchSymbols,   \* offsets by name of the container
    LibName, BuildId, Path,
    MaxShort,       \* bound on the writes of a run that are cut short
    Older           \* a description that the container was packed with before

(* A name that can be written with its terminator, and an offset. *)
Name == {s \in Seq(1..(Base - 1)) : Fits(Len(s) + 1, NumLen)}

Addr == {n \in Nat : Fits(n, AddrLen)}

ASSUME PackerAssumption ==
    /\ IdLen = 2           \* the two halves of a patch id
    /\ MaxLines \in Nat /\ MaxShort \in Nat /\ Fits(MaxLines, NumLen)
    /\ Path \in Name /\ Path # <<>>
    /\ LibName \in Name /\ Len(LibName) \in 1..(Base - 1)      \* NAME_MAX
    /\ BuildId \in Seq(Nat) /\ Fits(Len(BuildId), NumLen)
    /\ \A s \in DOMAIN TargetSymbols : TargetSymbols[s] \in Addr
    /\ \A s \in DOMAIN PatchSymbols : PatchSymbols[s] \in Addr

ASSUME LineAssumption ==
    \A l \in Line :
      /\ l.text \in Nat
      /\ l.kind = "dep" => l.id \in Seq(Nat) /\ Len(l.id) = IdLen
      /\ l.kind = "unit" => l.old \in Name /\ l.new \in Name
      /\ l.kind = "ref" => /\ l.target \in Name /\ l.ref \in Name
                           /\ l.manual \in BOOLEAN
                           /\ l.toff \in Addr /\ l.poff \in Addr /\ l.tls \in Nat

(* Whether the packer finds the symbols of a line. *)
Known(l) ==
    /\ l.kind = "unit" => l.old \in DOMAIN TargetSymbols
    /\ l.kind = "ref" => /\ (l.manual /\ l.toff # 0) \/ l.target \in DOMAIN TargetSymbols
                         /\ l.manual \/ l.ref \in DOMAIN PatchSymbols

ASSUME OlderAssumption ==
    /\ Older \in Seq(Line) /\ Fits(Len(Older), NumLen)
    /\ \A i \in DOMAIN Older : Known(Older[i])

VARIABLES
    packer,     \* where run_packer is
    dsc,        \* the lines read so far; none if the packer refused them
    meta,       \* the metadata built from them: units, dependencies, references
    file,       \* content of the temporary file
    sections,   \* the sections of the container that ulp added, by name
    status,     \* exit status of the packer
    short,      \* writes that were cut short
    trigger,    \* where the tool is
    loaded,     \* the metadata that the tool accepted
    buffer      \* __ulp_metadata_buffer of libpulp.so

packerVars == <<packer, dsc, meta, file, sections, status, short>>
vars == <<parserVars, packerVars, trigger, loaded, buffer>>

NewMeta == [objs |-> FALSE, comments |-> FALSE, patch_id |-> <<>>, build_id |-> <<>>,
            name |-> <<>>, units |-> <<>>, deps |-> <<>>, refs |-> <<>>]

(* Both halves of the id: build id of the container, digest of the text. *)
Digest(d) == Value(Append([i \in DOMAIN d |-> d[i].text], 1))

PatchId(d) == <<1, Digest(d)>>

(* What a description says: units in order, dependencies and references.   *)
(* This is the reference for the properties, not a translation.            *)
Unit(l) == [old_fname |-> l.old, new_fname |-> l.new, old_faddr |-> TargetSymbols[l.old]]

Reference(l) ==
    [target_name |-> l.target, reference_name |-> l.ref,
     target_offset |-> IF l.manual /\ l.toff # 0 THEN l.toff ELSE TargetSymbols[l.target],
     patch_offset |-> IF l.manual THEN l.poff ELSE PatchSymbols[l.ref],
     tls |-> l.tls]

OfKind(d, kind) ==
    FlattenSeq([i \in DOMAIN d |-> IF d[i].kind = kind THEN <<d[i]>> ELSE <<>>])

Describes(d, m) ==
    LET units == OfKind(d, "unit")
    IN  /\ m.patch_id = PatchId(d)
        /\ m.build_id = BuildId /\ m.name = LibName /\ m.so_filename = Path
        /\ m.type = 1 =>
             /\ m.units = [i \in DOMAIN units |-> Unit(units[i])]
             /\ ToSet(m.deps) = {l.id : l \in ToSet(OfKind(d, "dep"))}
             /\ ToSet(m.refs) = {Reference(l) : l \in ToSet(OfKind(d, "ref"))}
        /\ m.type = 2 => m.units = <<>> /\ m.deps = <<>> /\ m.refs = <<>>

-----------------------------------------------------------------------------
(* run_packer *)

(* The end of the run: the metadata is freed, the temporary file removed. *)
Exit(code) ==
    /\ packer' = "exited"
    /\ status' = code
    /\ meta' = NewMeta
    /\ file' = <<>>

(* The same before anything was written: the description is refused. *)
Refuse(code) == Exit(code) /\ dsc' = <<>>

Continue(where) ==
    /\ packer' = where
    /\ UNCHANGED <<status, file>>

ReaderIdle == UNCHANGED <<parserVars, trigger, loaded, buffer>>

run_packer ==
    /\ packer = "start"
    /\ Continue("container")
    /\ UNCHANGED <<dsc, meta, sections, short>>
    /\ ReaderIdle

(* add_dependency: only an apply patch can be depended on. *)
add_dependency(l) ==
    IF l.type = 1 THEN [ok |-> TRUE, m |-> [meta EXCEPT !.deps = <<l.id>> \o meta.deps]]
                  ELSE [ok |-> FALSE, m |-> meta]

RefLine(l) ==
    LET known == /\ l.target \in DOMAIN TargetSymbols
                 /\ l.ref \in DOMAIN PatchSymbols
        r == [target_name |-> l.target, reference_name |-> l.ref,
              target_offset |-> IF l.manual THEN l.toff ELSE TargetSymbols[l.target],
              patch_offset |-> IF l.manual THEN l.poff ELSE PatchSymbols[l.ref],
              tls |-> l.tls]
    IN  IF l.manual \/ known THEN [ok |-> TRUE, m |-> [meta EXCEPT !.refs = <<r>> \o meta.refs]]
                             ELSE [ok |-> FALSE, m |-> meta]

UnitLine(l) ==
    IF l.old \in DOMAIN TargetSymbols /\ l.new \in DOMAIN PatchSymbols
    THEN [ok |-> TRUE,
          m |-> [meta EXCEPT !.units = Append(meta.units, [old_fname |-> l.old,
                                                           new_fname |-> l.new,
                                                           old_faddr |-> 0])]]
    ELSE [ok |-> FALSE, m |-> meta]

(* One line after those of the dependencies. A dependency that comes later *)
(* reads as a function with an unknown name. A reference without ':', kind *)
(* "broken", ends in the handler of SIGSEGV, which exits with 1.           *)
BodyLine(l) ==
    CASE l.kind = "blank" -> [ok |-> TRUE, m |-> meta]
      [] l.kind = "comment" -> [ok |-> TRUE, m |-> [meta EXCEPT !.comments = TRUE]]
      [] l.kind = "object" -> [ok |-> ~meta.objs /\ l.opens,
                               m |-> [meta EXCEPT !.objs = TRUE, !.name = LibName]]
      [] l.kind = "ref" /\ meta.objs -> RefLine(l)
      [] l.kind = "unit" /\ meta.objs -> UnitLine(l)
      [] OTHER -> [ok |-> FALSE, m |-> meta]

(* The first line that is neither blank nor a comment names the container. *)
ContainerLine(l) ==
    [ok |-> l.kind \in {"blank", "comment"} \/ (l.kind = "container" /\ l.opens),
     m |-> IF l.kind = "comment" THEN [meta EXCEPT !.comments = TRUE] ELSE meta]

Interpret(l) ==
    CASE packer = "container" -> ContainerLine(l)
      [] packer = "deps" /\ l.kind = "dep" -> add_dependency(l)
      [] OTHER -> BodyLine(l)

PhaseAfter(l) ==
    CASE packer = "container" -> IF l.kind = "container" THEN "deps" ELSE "container"
      [] packer = "deps" /\ l.kind = "dep" -> "deps"
      [] OTHER -> "body"

(* parse_description, one turn of its loops. *)
DescriptionLine ==
    /\ packer \in {"container", "deps", "body"}
    /\ Len(dsc) < MaxLines
    /\ \E l \in Line :
         LET r == Interpret(l)
         IN  \/ r.ok /\ Continue(PhaseAfter(l)) /\ dsc' = Append(dsc, l) /\ meta' = r.m
             \/ ~r.ok /\ Refuse(1)
    /\ UNCHANGED <<sections, short>>
    /\ ReaderIdle

(* The end of the description. *)
DescriptionEnd ==
    /\ packer \in {"container", "deps", "body"}
    /\ \/ packer = "container" /\ Refuse(1)
       \/ packer # "container" /\ Continue("elf") /\ UNCHANGED <<dsc, meta>>
    /\ UNCHANGED <<sections, short>>
    /\ ReaderIdle

(* get_ulp_elf_metadata and write_patch_id. Without a target library the   *)
(* packer dies on a NULL pointer (139).                                    *)
Located(u) == [u EXCEPT !.old_faddr = TargetSymbols[u.old_fname]]

Resolved(r) ==
    IF r.target_offset # 0 THEN r
    ELSE [r EXCEPT !.target_offset = TargetSymbols[r.target_name]]

get_ulp_elf_metadata ==
    /\ packer = "elf"
    /\ LET known == \A i \in DOMAIN meta.refs :
                      \/ meta.refs[i].target_offset # 0
                      \/ meta.refs[i].target_name \in DOMAIN TargetSymbols
       IN  \/ ~meta.objs /\ Refuse(139)
           \/ meta.objs /\ ~known /\ Refuse(1)
           \/ /\ meta.objs /\ known
              /\ meta' = [meta EXCEPT
                   !.build_id = BuildId,
                   !.units = [i \in DOMAIN meta.units |-> Located(meta.units[i])],
                   !.refs = [i \in DOMAIN meta.refs |-> Resolved(meta.refs[i])]]
              /\ Continue("id")
              /\ UNCHANGED dsc
    /\ UNCHANGED <<sections, short>>
    /\ ReaderIdle

(* The id is written, or the container or the description cannot be read. *)
write_patch_id ==
    /\ packer = "id"
    /\ \/ /\ Continue("tmp")
          /\ meta' = [meta EXCEPT !.patch_id = PatchId(dsc)]
          /\ UNCHANGED dsc
       \/ Refuse(1)
    /\ UNCHANGED <<sections, short>>
    /\ ReaderIdle

(* create_path_to_tmp_file: once a random path was in use, conflict stays  *)
(* true and the loop goes on for ever.                                     *)
create_path_to_tmp_file ==
    /\ packer \in {"tmp", "ctmp", "rtmp"}
    /\ \/ Continue("conflict")
       \/ Continue(CASE packer = "tmp" -> "write"
                     [] packer = "ctmp" -> "cwrite"
                     [] packer = "rtmp" -> "rwrite")
    /\ UNCHANGED <<dsc, meta, sections, short>>
    /\ ReaderIdle

(* The metadata files. The results of fwrite and fclose are not looked at, *)
(* so that the file may hold only the first bytes.                         *)
WriteFile(bytes, next) ==
    /\ \/ /\ \E n \in 0..Len(bytes) :
               /\ file' = SubSeq(bytes, 1, n)
               /\ short' = IF n < Len(bytes) THEN short + 1 ELSE short
          /\ short' <= MaxShort
          /\ packer' = next
          /\ UNCHANGED <<meta, status>>
       \/ Exit(1) /\ UNCHANGED short
    /\ UNCHANGED <<dsc, sections>>
    /\ ReaderIdle

WriteMetadata ==
    /\ packer = "write"
    /\ WriteFile(create_patch_metadata_file(meta), "embed")

WriteComments ==
    /\ packer = "cwrite"
    /\ WriteFile(<<1>>, "cembed")

WriteReverse ==
    /\ packer = "rwrite"
    /\ WriteFile(write_reverse_patch(meta), "rembed")

(* embed_patch_metadata_into_elf: an error before objcopy runs is returned *)
(* (reported), the exit status of objcopy is not.                          *)
Embed(section, next, reported) ==
    /\ \/ /\ sections' = [s \in DOMAIN sections \cup {section} |->
                           IF s = section THEN file ELSE sections[s]]
          /\ next
       \/ UNCHANGED sections /\ next
       \/ UNCHANGED sections /\ reported
    /\ UNCHANGED <<dsc, short>>
    /\ ReaderIdle

EmbedMetadata ==
    /\ packer = "embed"
    /\ Embed("ulp",
             Continue(IF meta.comments THEN "ctmp" ELSE "rtmp") /\ UNCHANGED meta,
             Exit(1))

(* The variable ret that is set to 1 here is one of the inner block. *)
EmbedComments ==
    /\ packer = "cembed"
    /\ Embed("comments", Continue("rtmp") /\ UNCHANGED meta, Exit(0))

EmbedReverse ==
    /\ packer = "rembed"
    /\ Embed("rev", Exit(0), Exit(1))

PackerStep ==
    \/ run_packer
    \/ DescriptionLine
    \/ DescriptionEnd
    \/ get_ulp_elf_metadata
    \/ write_patch_id
    \/ create_path_to_tmp_file
    \/ WriteMetadata
    \/ WriteComments
    \/ WriteReverse
    \/ EmbedMetadata
    \/ EmbedComments
    \/ EmbedReverse

-----------------------------------------------------------------------------
(* ulp trigger: trigger_one_process up to the redirection, and load_patch. *)

(* The metadata of an absent section, or too much of it, is refused. The   *)
(* tool dies if the section is empty (an assertion) or shorter than type   *)
(* and id: it then copies d_size - 33 bytes, a negative number.            *)
Extract ==
    /\ trigger = "idle"
    /\ packer \in {"start", "exited"}
    /\ \E section \in {"ulp", "rev"} :
         \/ /\ section \notin DOMAIN sections
            /\ trigger' = "refused"
            /\ UNCHANGED parserVars
         \/ /\ section \in DOMAIN sections
            /\ Len(sections[section]) <= IdLen
            /\ trigger' = "died"
            /\ UNCHANGED parserVars
         \/ /\ section \in DOMAIN sections
            /\ Len(sections[section]) > IdLen
            /\ LET mem == extract_ulp_from_so_to_mem(sections[section], Path)
               IN  \/ /\ Len(mem) >= BufLen
                      /\ trigger' = "refused"
                      /\ UNCHANGED parserVars
                   \/ /\ Len(mem) < BufLen
                      /\ trigger' = "parse"
                      /\ StartParse(mem)
                      /\ UNCHANGED ulp
    /\ UNCHANGED <<packerVars, loaded, buffer>>

ParseStep ==
    /\ trigger \in {"parse", "library"}
    /\ Parse
    /\ UNCHANGED <<packerVars, trigger, loaded, buffer>>

(* The functions of the metadata must be in the container. *)
check_livepatch_functions_matches_metadata(m) ==
    \A i \in DOMAIN m.units : m.units[i].new_fname \in DOMAIN PatchSymbols

(* load_patch_info_from_mem returned. The rest of check_patch_sanity may   *)
(* find that the patch is not for this process.                            *)
Loaded ==
    /\ trigger = "parse" /\ ~Parsing /\ phase # "segv"
    /\ \/ /\ phase = "done"
          /\ check_livepatch_functions_matches_metadata(ulp)
          /\ trigger' = "call"
          /\ loaded' = ulp
       \/ trigger' = "refused" /\ UNCHANGED loaded
    /\ UNCHANGED <<packerVars, parserVars, buffer>>

\* Mutant of set_metadata_buffer: the last byte is not copied.
set_metadata_buffer_short(mem) ==
    SubSeq(mem, 1, Len(mem) - 1) \o SubSeq(buffer, Len(mem), BufLen)

(* The bytes of mem are written; what is behind them stays as it was.      *)
set_metadata_buffer(mem) == mem \o SubSeq(buffer, Len(mem) + 1, BufLen)

EmptyBuffer == [i \in 1..BufLen |-> 0]

(* Before the patch is applied, the patches of a library are reverted: its *)
(* name goes through the same buffer, and nothing clears it afterwards. If *)
(* that fails, the trigger ends.                                           *)
revert_patches_from_lib ==
    /\ trigger = "call"
    /\ Len(LibName) + 1 < BufLen
    /\ buffer' = set_metadata_buffer(Append(LibName, 0))
    /\ trigger' \in {"call", "refused"}
    /\ UNCHANGED <<packerVars, parserVars, loaded>>

(* apply_patch. __ulp_apply_patch gives up when libpulp.so is busy or in   *)
(* an error state, and leaves the buffer alone; otherwise parse_metadata   *)
(* reads the whole buffer into a new struct.                               *)
CallLibrary ==
    /\ trigger = "call"
    /\ buffer' = set_metadata_buffer(buf)
    /\ \/ /\ trigger' = "library"
          /\ StartParse(buffer')
          /\ ulp' = NoMetadata
       \/ trigger' = "refused" /\ UNCHANGED parserVars
    /\ UNCHANGED <<packerVars, loaded>>

(* parse_metadata cleared the buffer; load_patch used the metadata, or     *)
(* gave up on it, and freed it.                                            *)
LibraryReturns ==
    /\ trigger = "library" /\ ~Parsing /\ phase # "segv"
    /\ trigger' = "refused"
    /\ ulp' = loaded
    /\ buffer' = EmptyBuffer
    /\ UNCHANGED <<packerVars, buf, phase, cursor, count, left, loaded>>

\* Mutant of release_ulp_global_metadata: the dependencies stay.
release_ulp_global_metadata_deps == [NoMetadata EXCEPT !.deps = ulp.deps]

(* metadata_clean in trigger_one_process: the next patch is parsed into    *)
(* the same global variable.                                               *)
release_ulp_global_metadata == NoMetadata

Clean ==
    /\ trigger = "refused"
    /\ trigger' = "idle"
    /\ ulp' = release_ulp_global_metadata
    /\ buf' = <<>> /\ phase' = "idle" /\ cursor' = 0 /\ count' = 0 /\ left' = 0
    /\ loaded' = NoMetadata
    /\ UNCHANGED <<packerVars, buffer>>

TriggerStep ==
    \/ Extract
    \/ ParseStep
    \/ Loaded
    \/ revert_patches_from_lib
    \/ CallLibrary
    \/ LibraryReturns
    \/ Clean

Built(d) ==
    [type |-> 1, patch_id |-> PatchId(d), build_id |-> BuildId, name |-> LibName,
     units |-> LET u == OfKind(d, "unit") IN [i \in DOMAIN u |-> Unit(u[i])],
     deps |-> LET l == OfKind(d, "dep") IN [i \in DOMAIN l |-> l[i].id],
     refs |-> LET l == OfKind(d, "ref") IN [i \in DOMAIN l |-> Reference(l[i])]]

(* The container is new, or was packed before. *)
Init ==
    /\ packer = "start" /\ dsc = <<>> /\ meta = NewMeta /\ file = <<>> /\ status = 0
    /\ short = 0
    /\ \/ sections = [s \in {} |-> <<>>]
       \/ sections = [ulp |-> create_patch_metadata_file(Built(Older)),
                      rev |-> write_reverse_patch(Built(Older))]
    /\ trigger = "idle" /\ loaded = NoMetadata /\ buffer = EmptyBuffer
    /\ buf = <<>> /\ phase = "idle" /\ cursor = 0 /\ count = 0 /\ left = 0
    /\ ulp = NoMetadata

Next == PackerStep \/ TriggerStep

Spec == Init /\ [][Next]_vars

-----------------------------------------------------------------------------
(* Properties *)

(* Metadata that the tool accepts is, in every part, that of one           *)
(* description: what the packer was given last or what the container held  *)
(* before. Files cut short, failed steps of the packer and a container     *)
(* that was packed twice never make it accept anything else.               *)
(* (parse_metadata_from_mem, run_packer)                                   *)
AcceptedIsDescribed ==
    trigger \in {"call", "library"} => \E d \in {Older, dsc} : Describes(d, loaded)

(* libpulp.so, which parses its whole buffer without knowing how much of   *)
(* it is metadata and how much was left by an earlier call, reads the same *)
(* patch as the tool that checked it.                                      *)
(* (parse_metadata, set_metadata_buffer)                                   *)
LibraryReadsTheSame ==
    trigger = "library" /\ ~Parsing => phase = "done" /\ ulp = loaded

(* The parser never finds dependencies or references of an earlier patch,  *)
(* which it would extend through a NULL pointer.                           *)
(* (release_ulp_global_metadata before the next load_patch_info_from_mem)  *)
StartsClean == phase # "segv"

=============================================================================
