------------------------------ MODULE MCAccess ------------------------------
(* Access for TLC: one invitation, of the second user, to the organisation. *)
EXTENDS Access

CONSTANTS u1, u2, i1

InviteSecond == [i \in {i1} |-> u2]
ToOrganization == [i \in {i1} |-> "organization"]
AsViewer == [i \in {i1} |-> "viewer"]
Members(o1, o2, p1, p2) ==
    [scope \in Scopes |-> IF scope = "organization" THEN [u \in {u1, u2} |-> IF u = u1 THEN o1 ELSE o2]
                                                   ELSE [u \in {u1, u2} |-> IF u = u1 THEN p1 ELSE p2]]
FourStarts ==
    {Members("admin", "admin", "none", "none"), Members("admin", "viewer", "none", "admin"),
     Members("none", "admin", "admin", "none"), Members("admin", "none", "viewer", "none")}
DefaultActionPolicy ==
    [op \in Ops |-> "organization_admin"]

=============================================================================
