SPECIFICATION Spec
CONSTANT Extras = {e1, e2}
INVARIANT OriginalKept
