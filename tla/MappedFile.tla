------------------------------- MODULE MappedFile -------------------------------
(***************************************************************************)
(* memory_mapped_file_t: an open file and its mapping in a                 *)
(* unique_resource, on POSIX systems and on Windows. What the operating    *)
(* system has open is modelled beside it. A file handle of POSIX is a      *)
(* descriptor; that of Windows is closed once there is a section, and      *)
(* fdata_t::handle is the section.                                         *)
(***************************************************************************)
EXTENDS Naturals

CONSTANTS Mapped,   \* the objects of the program
          Slots,    \* how much of each kind the system has open at most
          Nothing,  \* nullptr, -1, or a unique_resource without a value
          MapFailed \* MAP_FAILED

(* What the system opens, and the members of fdata_t.                      *)
Resources == {"file", "section", "view"} \X Slots
Fdata == [handle : Resources \cup {Nothing}, ptr : Resources \cup {Nothing, MapFailed}]

ASSUME MappedFileAssumption ==
  Nothing # MapFailed /\ {Nothing, MapFailed} \cap Resources = {} /\ Nothing \notin Fdata

VARIABLES platform,
          mf \* the objects, by what they hold, and what is open

mappedVars == <<platform, mf>>

Blank == [handle |-> Nothing, ptr |-> Nothing]

MappedInit ==
  /\ platform \in {"posix", "windows"}
  /\ mf = [alive |-> {}, fdata |-> [m \in Mapped |-> Nothing], opened |-> {}, strays |-> 0]

-------------------------------------------------------------------------------
(* The operating system. Numbers are used again: what is closed twice may  *)
(* have become another's in between.                                       *)

Free(s, type) == {r \in {<<type, n>> : n \in Slots} : r \notin s.opened}
Opens(s, r) == [s EXCEPT !.opened = @ \cup {r}]

Closes(s, r) ==
  IF r \in {Nothing, MapFailed} THEN s
  ELSE IF r \in s.opened THEN [s EXCEPT !.opened = @ \ {r}]
  ELSE [s EXCEPT !.strays = 1]

-------------------------------------------------------------------------------
(* Parts of operations.                                                    *)

(* Mutant of CleanUp: the number of the file is not reset.                 *)
CleanUpKeepsFile(s, m) ==
  LET d == s.fdata[m]
      done == Closes(Closes(s, d.ptr), d.handle)
  IN [done EXCEPT !.fdata[m].ptr = Nothing]

(* cleanup_t. That of Windows closes d.handle after it has made it null.   *)
CleanUp(s, m) ==
  LET d == s.fdata[m]
      unmapped == Closes(s, d.ptr)
      done == IF platform = "posix" THEN Closes(unmapped, d.handle) ELSE unmapped
  IN [done EXCEPT !.fdata[m] = Blank]

(* unique_resource::reset( ), which keeps the value it has cleaned up.     *)
ResetFile(s, m) == IF s.fdata[m] = Nothing THEN s ELSE CleanUp(s, m)

EmplaceFile(s, m) == [ResetFile(s, m) EXCEPT !.fdata[m] = Blank]

Holding(s, m, handle, ptr) == [s EXCEPT !.fdata[m] = [handle |-> handle, ptr |-> ptr]]

-------------------------------------------------------------------------------
(* Operations.                                                             *)

CreateMapped(m) == m \notin mf.alive /\ mf' = [mf EXCEPT !.alive = @ \cup {m}]

(* open on POSIX: the file may be missing, be empty or fail to map.        *)
OpenPosix(m) ==
  LET s == EmplaceFile(mf, m) IN
  /\ platform = "posix" /\ m \in mf.alive
  /\ \/ mf' = s
     \/ \E fd \in Free(s, "file") :
          LET open == Holding(Opens(s, fd), m, fd, Nothing) IN
          \/ mf' = ResetFile(open, m)
          \/ mf' = ResetFile(Holding(open, m, fd, MapFailed), m)
          \/ \E view \in Free(s, "view") : mf' = Holding(Opens(open, view), m, fd, view)

(* open on Windows: it may fail at the file, its size, the section and the *)
(* view. The one for wide strings does not emplace first, and cannot go on *)
(* past the size of the file if there is no value.                         *)
OpenWindows(m, wide) ==
  LET s == IF wide THEN mf ELSE EmplaceFile(mf, m) IN
  /\ platform = "windows" /\ m \in mf.alive
  /\ \/ mf' = s
     \/ \E f \in Free(s, "file") :
          \/ mf' = ResetFile(Opens(s, f), m)
          \/ /\ s.fdata[m] # Nothing
             /\ \/ mf' = ResetFile(Holding(Opens(s, f), m, Nothing, s.fdata[m].ptr), m)
                \/ \E section \in Free(s, "section") :
                     LET mapped == Holding(Opens(s, section), m, section, s.fdata[m].ptr) IN
                     \/ mf' = ResetFile(mapped, m)
                     \/ \E view \in Free(s, "view") :
                          mf' = Holding(Opens(mapped, view), m, section, view)

MoveConstructMapped(m, g) ==
  /\ m \notin mf.alive /\ g \in mf.alive
  /\ mf' = [mf EXCEPT !.alive = @ \cup {m},
                      !.fdata = [@ EXCEPT ![m] = mf.fdata[g], ![g] = Nothing]]

(* operator=, reset( rhs.release( ) ), which needs a value to release.     *)
MoveAssignMapped(m, g) ==
  LET released == [mf EXCEPT !.fdata[g] = Nothing] IN
  /\ m \in mf.alive /\ g \in mf.alive /\ mf.fdata[g] # Nothing
  /\ mf' = [ResetFile(released, m) EXCEPT !.fdata[m] = mf.fdata[g]]

DestroyMapped(m) ==
  /\ m \in mf.alive
  /\ mf' = [ResetFile(mf, m) EXCEPT !.fdata[m] = Nothing, !.alive = @ \ {m}]

MappedNext ==
  /\ UNCHANGED platform
  /\ \E m \in Mapped :
       \/ CreateMapped(m) \/ OpenPosix(m) \/ DestroyMapped(m)
       \/ \E wide \in BOOLEAN : OpenWindows(m, wide)
       \/ \E g \in Mapped : MoveConstructMapped(m, g) \/ MoveAssignMapped(m, g)

MappedSpec == MappedInit /\ [][MappedNext]_mappedVars

-------------------------------------------------------------------------------
(* Properties.                                                             *)

Held(m) == IF mf.fdata[m] = Nothing THEN {} ELSE {mf.fdata[m].handle, mf.fdata[m].ptr} \ {Nothing}

(* "A RAII Memory Mapped File object": in every state between operations,  *)
(* after failures to open and any moves, what is open is what the objects  *)
(* hold, each thing by one of them, and nothing was closed that was not    *)
(* open.                                                                   *)
RaiiMappedFile ==
  /\ mf.opened = UNION {Held(m) : m \in mf.alive}
  /\ \A m, g \in mf.alive : m # g => Held(m) \cap Held(g) = {}
  /\ mf.strays = 0

(* So it is on POSIX systems.                                              *)
RaiiOnPosix == platform = "posix" => RaiiMappedFile
================================================================================
