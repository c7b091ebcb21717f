----------------------------- MODULE Multiboot -----------------------------
(***************************************************************************)
(* The walk over the boot loader's tags (kernel/multiboot/multiboot2.cpp). *)
(*                                                                         *)
(* The information is memory, in units of 8 bytes: each tag lies at an     *)
(* aligned offset and holds, in its first unit, its type and its size in   *)
(* bytes.  The walk moves a pointer over it; nothing but the end tag stops *)
(* it, as total_size is counted down and never looked at.                  *)
(*                                                                         *)
(* Module Startup runs the walk as part of kernel_main.                    *)
(***************************************************************************)
EXTENDS Integers, Sequences

CONSTANTS
  Sizes,         \* the sizes of tags other than the end tag, in bytes
  MaxTags        \* bound: tags before the end tag

ASSUME MultibootAssumption ==
  /\ Sizes \subseteq {n \in Nat : n >= 8}
  /\ MaxTags \in Nat

END == 0
CMDLINE == 1           \* stands for every type parse_tag_type does not know
BASIC_MEMINFO == 4
ELF_SECTIONS == 9

VARIABLES
  tags,          \* what the loader left, in order
  curr_tag,      \* the walk's offset, in units
  meminfo,       \* the tag copied to info->meminfo, 0 if none
  elf_sections   \* ... to info->elf_sections

walkVars == <<tags, curr_tag, meminfo, elf_sections>>

\* A rounding that drops the last, partial unit.
Bug_round_up_8(num) == (num \div 8) * 8

round_up_8(num) == ((num + 7) \div 8) * 8

\* How far curr_tag moves; a multiboot_tag has 8 bytes.
Stride(size) == round_up_8(size) \div 8

\* Where the loader puts tag k: each one starts at the next multiple of 8.
Units(n) == (n + 7) \div 8

Offset[k \in Nat] == IF k <= 1 THEN 0 ELSE Offset[k - 1] + Units(tags[k - 1].size)

\* The number of the tag that starts at offset o, 0 if o is inside a tag.
TagAt(o) ==
  IF \E k \in DOMAIN tags : Offset[k] = o
  THEN CHOOSE k \in DOMAIN tags : Offset[k] = o
  ELSE 0

Loaders ==
  {t \o <<[type |-> END, size |-> 8]>> :
     t \in UNION {[1..n -> [type : {CMDLINE, BASIC_MEMINFO, ELF_SECTIONS}, size : Sizes]] :
                    n \in 0..MaxTags}}

WalkInit ==
  /\ tags \in Loaders
  /\ curr_tag = 0
  /\ meminfo = 0 /\ elf_sections = 0

\* *curr_tag is an end tag.
AtEnd == TagAt(curr_tag) # 0 /\ tags[TagAt(curr_tag)].type = END

\* A switch without its first break: a memory map is copied to both members.
Bug_missing_break ==
  LET k    == TagAt(curr_tag)
      next == curr_tag + Stride(tags[k].size)
      n    == TagAt(next)
  IN
  /\ k # 0 /\ ~AtEnd
  /\ curr_tag' = next
  /\ meminfo' = IF n # 0 /\ tags[n].type = BASIC_MEMINFO THEN n ELSE meminfo
  /\ elf_sections' = IF n # 0 /\ tags[n].type \in {BASIC_MEMINFO, ELF_SECTIONS} THEN n
                     ELSE elf_sections
  /\ UNCHANGED tags

\* A switch whose first case is the default one: whatever is not a list of
\* sections is copied as a memory map, the end tag too.
Bug_default_case ==
  LET k    == TagAt(curr_tag)
      next == curr_tag + Stride(tags[k].size)
      n    == TagAt(next)
  IN
  /\ k # 0 /\ ~AtEnd
  /\ curr_tag' = next
  /\ meminfo' = IF n # 0 /\ tags[n].type # ELF_SECTIONS THEN n ELSE meminfo
  /\ elf_sections' = IF n # 0 /\ tags[n].type = ELF_SECTIONS THEN n ELSE elf_sections
  /\ UNCHANGED tags

\* One turn of boot_info's loop: advance, then parse_tag_type what is there.
next_tag ==
  LET k    == TagAt(curr_tag)
      next == curr_tag + Stride(tags[k].size)
      n    == TagAt(next)
  IN
  /\ k # 0 /\ ~AtEnd
  /\ curr_tag' = next
  /\ meminfo' = IF n # 0 /\ tags[n].type = BASIC_MEMINFO THEN n ELSE meminfo
  /\ elf_sections' = IF n # 0 /\ tags[n].type = ELF_SECTIONS THEN n ELSE elf_sections
  /\ UNCHANGED tags

----------------------------------------------------------------------------
(* Properties. *)

\* The pointer is always on a tag, never inside one or past the end tag.
OnATag == TagAt(curr_tag) # 0

\* The tags of type t, the first tag included.
TagsOf(t) == {k \in DOMAIN tags : tags[k].type = t}

IsLast(k, S) == IF S = {} THEN k = 0 ELSE k \in S /\ \A j \in S : j <= k

\* Where the walk has ended, the kernel has the last of all tags of each type it
\* knows, and none if there is none.  Nothing is claimed of a type whose only tag
\* is the first one: boot_info advances before it parses, and that tag is lost.
ReportsLast ==
  AtEnd =>
    /\ TagsOf(BASIC_MEMINFO) # {1} => IsLast(meminfo, TagsOf(BASIC_MEMINFO))
    /\ TagsOf(ELF_SECTIONS) # {1} => IsLast(elf_sections, TagsOf(ELF_SECTIONS))
============================================================================
