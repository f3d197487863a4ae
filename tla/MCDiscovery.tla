----------------------------- MODULE MCDiscovery -----------------------------
(***************************************************************************)
(* A small tree:                                                           *)
(*                                                                         *)
(*     1 /r         configured, and once more through an alias             *)
(*     2   /a       configured as a root of its own                        *)
(*     3     /b     a link put here leads to 7                             *)
(*     4       /c   below the scan depth of root 1, not of root 2          *)
(*     5   /target  ignored                                                *)
(*     6     /x     a repository nobody should find                        *)
(*     7   /z       a link put here leads up to 1                          *)
(*     8     /w     has the common directory of 2                          *)
(***************************************************************************)
EXTENDS Discovery, TLC

CONSTANTS whole, alias, nested

MCDirs == 1 .. 8
MCParent == <<0, 1, 2, 3, 1, 5, 1, 7>>
MCLinkTo == <<0, 0, 7, 0, 0, 0, 1, 0>>
MCCommonOf == <<1, 2, 3, 4, 5, 6, 7, 2>>
MCConfigured == {whole, alias, nested}
MCRootOf == (whole :> 1) @@ (alias :> 1) @@ (nested :> 2)
MCFirstGit ==
    {[d \in MCDirs |-> IF d = 6 THEN "repository"
                       ELSE IF d \in DOMAIN some THEN some[d] ELSE "none"] :
        some \in [{2, 4, 8} -> {"none", "file", "damaged", "repository"}]}
=============================================================================
