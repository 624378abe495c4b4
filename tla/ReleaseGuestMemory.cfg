SPECIFICATION Spec
CONSTANTS
 LastPage = 3
 DirectPages = 2
 FlexiblePages = 1
 Prot = {1}
 Name = {anon}
 Anon = anon
 HostRefuses = FALSE
 ReleasesSplit = TRUE
INVARIANTS AliasesAreOwned
