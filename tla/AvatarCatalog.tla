--------------------------- MODULE AvatarCatalog ---------------------------
(* What the service promises about one avatar, whatever goes on between the *)
(* server, the database, the object storage, the broker and the workers:    *)
(* it appears once, gets at most one processing verdict that is never       *)
(* revised, may be deleted by its owner at any time, and never comes back.  *)
CONSTANT Avatars

VARIABLE catalog     \* what a client sees of each avatar

States == {"absent", "pending", "completed", "failed", "deleted"}

Visible == {"pending", "completed", "failed"}

Init == catalog = [a \in Avatars |-> "absent"]

Move(a, from, to) ==
    /\ catalog[a] \in from
    /\ catalog' = [catalog EXCEPT ![a] = to]

\* The metadata row of an upload becomes visible.
Accept(a) == Move(a, {"absent"}, "pending")

\* Processing gives its verdict: thumbnails, or an image nobody can decode.
Settle(a) == \E verdict \in {"completed", "failed"} : Move(a, {"pending"}, verdict)

\* The owner deletes the avatar, processed or not.
Delete(a) == Move(a, Visible, "deleted")

Next == \E a \in Avatars : Accept(a) \/ Settle(a) \/ Delete(a)

Spec == Init /\ [][Next]_catalog
=============================================================================
