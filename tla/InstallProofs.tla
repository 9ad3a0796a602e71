--------------------------- MODULE InstallProofs ---------------------------
(***************************************************************************)
(* Proofs about Install, for any files the build brings along.             *)
(***************************************************************************)
EXTENDS Install, TLAPS

\* Why a backup that is whole is good for a rollback: the copy was made of the
\* distribution's library, or of ours while an older backup was still beside it.
BackupInv ==
  /\ bak = "ours" => stray = "distro"
  /\ lib = "partial" => bak # "none"
  /\ pc = "copy" => /\ bak = "partial" /\ lib \in {"distro", "ours"}
                    /\ lib = "ours" => stray = "distro"
  /\ pc = "meson" => bak # "none"

LinkInv ==
  /\ stray # "none" => legacy
  /\ pc = "fix_link" => stray = "none"
  /\ pc \in {"ldconfig", "link"} => lib = "ours"
  /\ pc = "remove" => ~installed

\* The lines of the log that are done.
RemoveInv ==
  pc = "remove" => \A f \in Paths \ left : Present(f) => Owned(f)

InstallInv ==
  /\ InstallTypeOK /\ InstallHolds /\ RollbackPossible
  /\ BackupInv /\ LinkInv /\ RemoveInv

\* Where ldconfig may leave the link.
LEMMA LdconfigKeeps ==
  ASSUME InstallTypeOK, NEW l \in LdconfigLinks
  PROVE  /\ l \in {"none", "lib", "stray"}
         /\ lib # "none" /\ stray = "none" => l = "lib"
BY DEF InstallTypeOK, LdconfigLinks, Candidates

LEMMA InstallSteps ==
  ASSUME InstallInv,
         \/ BeginInstall \/ Backup \/ Copied \/ MesonInstall \/ InstallLdconfig \/ InstallLink
  PROVE  InstallInv'
<1> USE DEF InstallInv, InstallTypeOK, InstallHolds, RollbackPossible, BackupInv, LinkInv,
            RemoveInv, Contents, files
<1>1. CASE BeginInstall
  BY <1>1 DEF BeginInstall
<1>2. CASE Backup
  BY <1>2 DEF Backup
<1>3. CASE Copied
  BY <1>3 DEF Copied
<1>4. CASE MesonInstall
  BY <1>4 DEF MesonInstall
<1>5. CASE InstallLdconfig
  BY <1>5, LdconfigKeeps DEF InstallLdconfig
<1>6. CASE InstallLink
  BY <1>6 DEF InstallLink
<1> QED
  BY <1>1, <1>2, <1>3, <1>4, <1>5, <1>6

LEMMA FixSteps ==
  ASSUME InstallInv, BeginFix \/ FixMove \/ FixLink \/ FixLdconfig
  PROVE  InstallInv'
<1> USE DEF InstallInv, InstallTypeOK, InstallHolds, RollbackPossible, BackupInv, LinkInv,
            RemoveInv, Contents, files
<1>1. CASE BeginFix
  BY <1>1 DEF BeginFix
<1>2. CASE FixMove
  BY <1>2 DEF FixMove
<1>3. CASE FixLink
  BY <1>3 DEF FixLink
<1>4. CASE FixLdconfig
  BY <1>4, LdconfigKeeps DEF FixLdconfig
<1> QED
  BY <1>1, <1>2, <1>3, <1>4

LEMMA RemoveStep ==
  ASSUME InstallInv, NEW f \in Paths, Remove(f)
  PROVE  InstallInv'
<1>1. /\ pc = "remove" /\ pc' = "remove" /\ left' = left \ {f} /\ ~installed
      /\ UNCHANGED <<bak, stray, owned, log, installed, legacy>>
      /\ lib' \in {lib, "none"} /\ link' \in {link, "none"} /\ extra' \subseteq extra
  BY DEF InstallInv, LinkInv, Remove
<1>2. InstallTypeOK' /\ InstallHolds' /\ RollbackPossible' /\ BackupInv' /\ LinkInv'
  BY <1>1 DEF InstallInv, InstallTypeOK, InstallHolds, RollbackPossible, BackupInv, LinkInv,
     Contents
<1>3. ASSUME NEW g \in Paths \ left', Present(g)'
      PROVE  Owned(g)'
  <2>1. Present(g) /\ (g # f \/ ~Found(f) \/ Owned(f))
    BY <1>3, ExtrasAssumption DEF Present, Found, Remove, Paths
  <2>2. Owned(g)
    BY <1>1, <1>3, <2>1 DEF InstallInv, RemoveInv, Found
  <2> QED
    BY <1>1, <2>2 DEF Owned
<1> QED
  BY <1>2, <1>3 DEF InstallInv, RemoveInv

LEMMA UninstallSteps ==
  ASSUME InstallInv, BeginUninstall \/ UninstallLdconfig \/ Dies
  PROVE  InstallInv'
<1> USE DEF InstallInv, InstallTypeOK, InstallHolds, RollbackPossible, BackupInv, LinkInv,
            RemoveInv, Contents, files
<1>1. CASE BeginUninstall
  BY <1>1 DEF BeginUninstall
<1>2. CASE UninstallLdconfig
  BY <1>2, LdconfigKeeps DEF UninstallLdconfig
<1>3. CASE Dies
  BY <1>3 DEF Dies
<1> QED
  BY <1>1, <1>2, <1>3

LEMMA BetweenSteps ==
  ASSUME InstallInv, Ldconfig \/ PacmanSync \/ PacmanRemove \/ Rollback
  PROVE  InstallInv'
<1> USE DEF InstallInv, InstallTypeOK, InstallHolds, RollbackPossible, BackupInv, LinkInv,
            RemoveInv, Contents
<1>1. CASE Ldconfig
  BY <1>1, LdconfigKeeps DEF Ldconfig
<1>2. CASE PacmanSync
  BY <1>2 DEF PacmanSync
<1>3. CASE PacmanRemove
  BY <1>3 DEF PacmanRemove
<1>4. CASE Rollback
  BY <1>4 DEF Rollback
<1> QED
  BY <1>1, <1>2, <1>3, <1>4

LEMMA InstallInvariant == Spec => []InstallInv
<1>1. Init => InstallInv
  BY DEF Init, InstallInv, InstallTypeOK, InstallHolds, RollbackPossible, BackupInv,
     LinkInv, RemoveInv, Contents
<1>2. InstallInv /\ [Next]_vars => InstallInv'
  <2> SUFFICES ASSUME InstallInv, [Next]_vars PROVE InstallInv'
    OBVIOUS
  <2>1. CASE UNCHANGED vars
    BY <2>1 DEF vars, files, InstallInv, InstallTypeOK, InstallHolds, RollbackPossible,
       BackupInv, LinkInv, RemoveInv, Present, Owned
  <2> QED
    BY <2>1, InstallSteps, FixSteps, RemoveStep, UninstallSteps, BetweenSteps DEF Next
<1> QED
  BY <1>1, <1>2, PTL DEF Spec

\* Types: whatever is in place was put there by a script or by pacman.
THEOREM InstallTypeCorrect == Spec => []InstallTypeOK
BY InstallInvariant, PTL DEF InstallInv

\* Once installed, the built library stays the one that is loaded, whatever other
\* packages' ldconfig does and wherever a repair or a second install is stopped.
THEOREM InstallLasts == Spec => []InstallHolds
BY InstallInvariant, PTL DEF InstallInv

\* No sequence of installs, repairs, removals and rollbacks loses the distribution's
\* library while ours is in its place, short of a copy that was interrupted.
THEOREM RollbackKept == Spec => []RollbackPossible
BY InstallInvariant, PTL DEF InstallInv

\* Every file of the log that is left after an uninstall belongs to pacman, in
\* whatever order the log lists them and wherever an earlier uninstall stopped.
THEOREM UninstallComplete == Spec => []UninstallClears
<1>1. InstallInv => UninstallClears
  BY DEF InstallInv, RemoveInv, UninstallClears
<1> QED
  BY <1>1, InstallInvariant, PTL
=============================================================================
