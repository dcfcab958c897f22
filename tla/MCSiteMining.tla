--------------------------- MODULE MCSiteMining ---------------------------
\* SiteMining for TLC: a page that gains a link to the homepage of a researcher;
\* a directory lists another page of the same site as the profile of somebody
\* unknown; searches find both pages for the researcher.
EXTENDS SiteMining, TLC

CONSTANTS m1, m2, r1, s1, home, sub, page, link, profile

Owners == link :> r1 @@ profile :> Nobody
SitesOf == home :> s1 @@ sub :> s1
UrlsOf == link :> home @@ profile :> sub
Children == link :> {} @@ profile :> {link}
Links == page :> <<{}, {link}>>
Found == r1 :> <<home, sub>>
MiningSymmetry == Permutations(Miners)
==========================================================================
