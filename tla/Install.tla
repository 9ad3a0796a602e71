------------------------------ MODULE Install ------------------------------
(***************************************************************************)
(* What scripts/install-local.sh, fix-symlink.sh and uninstall-local.sh    *)
(* make of /usr/lib, where the distribution's libfprint is replaced by a   *)
(* built one.  One administrator runs one of them at a time; each may die  *)
(* between two commands.  Pacman, ldconfig and meson are external.         *)
(***************************************************************************)
EXTENDS Naturals, FiniteSets

CONSTANT Extras     \* files meson installs that no package owns

ASSUME ExtrasAssumption == {"LIB", "LINK"} \cap Extras = {}

VARIABLES lib,        \* content of $LIB, /usr/lib/libfprint-2.so.2.0.0
          bak,        \* of $BAK, outside the ldconfig search path
          stray,      \* of $STRAY, the backup older versions left in /usr/lib
          link,       \* target of /usr/lib/libfprint-2.so.2
          extra,      \* Extras in place
          owned,      \* pacman owns LIB and LINK: libfprint is installed
          log,        \* meson's install log exists
          pc, left,   \* next command of the running script; log lines to do
          installed,  \* history: an install ended, nothing undid it since
          legacy      \* history: an older version's backup in /usr/lib, not repaired

files == <<lib, bak, stray, link, extra>>
vars  == <<files, owned, log, pc, left, installed, legacy>>

Contents == {"none", "distro", "ours", "partial"}
Paths    == {"LIB", "LINK"} \cup Extras

\* A stock system, or one an older version of install-local.sh has been run on.
Init ==
  /\ bak = "none" /\ owned = TRUE /\ pc = "idle" /\ left = {} /\ installed = FALSE
  /\ \/ lib = "distro" /\ stray = "none" /\ link = "lib" /\ extra = {}
        /\ log = FALSE /\ legacy = FALSE
     \/ lib = "ours" /\ stray = "distro" /\ link \in {"lib", "stray"} /\ extra = Extras
        /\ log = TRUE /\ legacy = TRUE

\* The files in /usr/lib with the SONAME: ldconfig links to one of them.
Candidates == (IF lib = "none" THEN {} ELSE {"lib"})
              \cup (IF stray = "none" THEN {} ELSE {"stray"})

LdconfigLinks == IF Candidates = {} THEN {"none", link} ELSE Candidates

----------------------------------------------------------------------------
(* install-local.sh                                                        *)

\* The pre-flight may also refuse a good library: grep -q under pipefail.
BeginInstall ==
  /\ pc = "idle" /\ pc' = "backup"
  /\ UNCHANGED <<files, owned, log, left, installed, legacy>>

\* Bugs: an existing backup is not looked for; the backup is kept in /usr/lib.
BackupAgain ==
  /\ pc = "backup"
  /\ IF lib = "none" THEN UNCHANGED bak /\ pc' = "idle"
                     ELSE bak' = "partial" /\ pc' = "copy"
  /\ UNCHANGED <<lib, stray, link, extra, owned, log, left, installed, legacy>>

BackupBeside ==
  /\ pc = "backup"
  /\ stray' = IF stray = "none" THEN lib ELSE stray
  /\ pc' = "meson"
  /\ UNCHANGED <<lib, bak, link, extra, owned, log, left, installed, legacy>>

\* Nothing to copy fails the script.
Backup ==
  /\ pc = "backup"
  /\ \/ bak # "none" /\ UNCHANGED bak /\ pc' = "meson"
     \/ bak = "none" /\ lib # "none" /\ bak' = "partial" /\ pc' = "copy"
     \/ bak = "none" /\ lib = "none" /\ UNCHANGED bak /\ pc' = "idle"
  /\ UNCHANGED <<lib, stray, link, extra, owned, log, left, installed, legacy>>

Copied ==
  /\ pc = "copy" /\ pc' = "meson"
  /\ bak' = lib
  /\ UNCHANGED <<lib, stray, link, extra, owned, log, left, installed, legacy>>

MesonInstall ==
  /\ pc = "meson" /\ pc' = "ldconfig"
  /\ lib' = "ours" /\ link' = "lib" /\ extra' = Extras /\ log' = TRUE
  /\ UNCHANGED <<bak, stray, owned, left, installed, legacy>>

InstallLdconfig ==
  /\ pc = "ldconfig" /\ pc' = "link"
  /\ link' \in LdconfigLinks
  /\ UNCHANGED <<lib, bak, stray, extra, owned, log, left, installed, legacy>>

InstallLink ==
  /\ pc = "link" /\ pc' = "idle"
  /\ link' = "lib" /\ installed' = TRUE
  /\ UNCHANGED <<lib, bak, stray, extra, owned, log, left, legacy>>

----------------------------------------------------------------------------
(* fix-symlink.sh                                                          *)

\* `ls` of a missing link fails the script.
BeginFix ==
  /\ pc = "idle" /\ link # "none" /\ pc' = "fix_move"
  /\ UNCHANGED <<files, owned, log, left, installed, legacy>>

FixMove ==
  /\ pc = "fix_move" /\ pc' = "fix_link"
  /\ bak' = IF stray = "none" THEN bak ELSE stray
  /\ stray' = "none"
  /\ UNCHANGED <<lib, link, extra, owned, log, left, installed, legacy>>

FixLink ==
  /\ pc = "fix_link" /\ pc' = "fix_ldconfig"
  /\ link' = "lib" /\ legacy' = FALSE
  /\ UNCHANGED <<lib, bak, stray, extra, owned, log, left, installed>>

FixLdconfig ==
  /\ pc = "fix_ldconfig" /\ pc' = "idle"
  /\ link' \in LdconfigLinks
  /\ UNCHANGED <<lib, bak, stray, extra, owned, log, left, installed, legacy>>

----------------------------------------------------------------------------
(* uninstall-local.sh                                                      *)

BeginUninstall ==
  /\ pc = "idle" /\ log /\ pc' = "remove" /\ left' = Paths
  /\ installed' = FALSE
  /\ UNCHANGED <<files, owned, log, legacy>>

Owned(f) == owned /\ f \in {"LIB", "LINK"}

Present(f) ==
  CASE f = "LIB"  -> lib # "none"
    [] f = "LINK" -> link # "none"
    [] OTHER      -> f \in extra

\* Bug: a link whose target is gone is taken for missing.
FoundResolved(f) == IF f = "LINK" THEN link \in Candidates ELSE Present(f)

\* [ -e ] || [ -L ]
Found(f) == Present(f)

Remove(f) ==
  /\ pc = "remove" /\ f \in left /\ left' = left \ {f}
  /\ IF Found(f) /\ ~Owned(f)
     THEN /\ lib' = IF f = "LIB" THEN "none" ELSE lib
          /\ link' = IF f = "LINK" THEN "none" ELSE link
          /\ extra' = extra \ {f}
     ELSE UNCHANGED <<lib, link, extra>>
  /\ UNCHANGED <<bak, stray, owned, log, pc, installed, legacy>>

UninstallLdconfig ==
  /\ pc = "remove" /\ left = {} /\ pc' = "idle"
  /\ link' \in LdconfigLinks
  /\ UNCHANGED <<lib, bak, stray, extra, owned, log, left, installed, legacy>>

----------------------------------------------------------------------------
(* What happens between the scripts                                        *)

\* Killed, or stopped by set -e at a failed command.
Dies ==
  /\ pc # "idle" /\ pc' = "idle" /\ left' = {}
  /\ UNCHANGED <<files, owned, log, installed, legacy>>

\* Another package's ldconfig.
Ldconfig ==
  /\ pc = "idle" /\ link' \in LdconfigLinks
  /\ UNCHANGED <<lib, bak, stray, extra, owned, log, pc, left, installed, legacy>>

\* pacman -S refuses to write over a file no package owns.
PacmanSync ==
  /\ pc = "idle" /\ (owned \/ (lib = "none" /\ link = "none"))
  /\ lib' = "distro" /\ owned' = TRUE /\ installed' = FALSE
  /\ link' \in {"lib"} \cup (IF stray = "none" THEN {} ELSE {"stray"})
  /\ UNCHANGED <<bak, stray, extra, log, pc, left, legacy>>

PacmanRemove ==
  /\ pc = "idle" /\ owned
  /\ lib' = "none" /\ owned' = FALSE /\ installed' = FALSE
  /\ link' = IF stray = "none" THEN "none" ELSE "stray"
  /\ UNCHANGED <<bak, stray, extra, log, pc, left, legacy>>

\* The rollback install-local.sh prints.
Rollback ==
  /\ pc = "idle" /\ bak # "none"
  /\ lib' = bak /\ installed' = FALSE
  /\ link' \in {"lib"} \cup (IF stray = "none" THEN {} ELSE {"stray"})
  /\ UNCHANGED <<bak, stray, extra, owned, log, pc, left, legacy>>

Next ==
  \/ BeginInstall \/ Backup \/ Copied \/ MesonInstall \/ InstallLdconfig \/ InstallLink
  \/ BeginFix \/ FixMove \/ FixLink \/ FixLdconfig
  \/ BeginUninstall \/ (\E f \in Paths : Remove(f)) \/ UninstallLdconfig
  \/ Dies \/ Ldconfig \/ PacmanSync \/ PacmanRemove \/ Rollback

Spec == Init /\ [][Next]_vars

----------------------------------------------------------------------------
(* Properties                                                              *)

InstallTypeOK ==
  /\ lib \in Contents /\ bak \in Contents /\ stray \in {"none", "distro"}
  /\ link \in {"none", "lib", "stray"} /\ extra \subseteq Extras
  /\ {owned, log, installed, legacy} \subseteq BOOLEAN
  /\ pc \in {"idle", "backup", "copy", "meson", "ldconfig", "link", "fix_move",
             "fix_link", "fix_ldconfig", "remove"}
  /\ left \subseteq Paths

\* A finished install stays the library that is loaded whatever ldconfig is run
\* later (install-local.sh:13): only a backup of an older version is a rival.
InstallHolds == installed => lib = "ours" /\ (link = "lib" \/ legacy)

\* While the built library is in place the distribution's is kept, over any
\* sequence of installs, repairs and rollbacks, unless a copy was cut short.
RollbackPossible ==
  lib = "ours" /\ bak # "partial" => "distro" \in {bak, stray}

\* install-local.sh:30, "already exists, keeping the original backup": what it
\* keeps is the distribution's library.
OriginalKept == lib = "ours" => "distro" \in {bak, stray}

\* An uninstall leaves nothing behind that pacman -S would refuse to write over
\* (uninstall-local.sh:4), links whose target went first included.
UninstallClears ==
  pc = "remove" /\ left = {} => \A f \in Paths : Present(f) => Owned(f)
=============================================================================
