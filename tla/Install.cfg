SPECIFICATION Spec
CONSTANT Extras = {e1, e2}
INVARIANTS InstallTypeOK InstallHolds RollbackPossible 
