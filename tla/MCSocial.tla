------------------------------ MODULE MCSocial ------------------------------
(* One friend or stranger x of the user me, one group and one tag.  What a *)
(* page keeps is empty at first when the tour does not visit the page, and *)
(* the pages of posts have one act less to spend.                          *)
EXTENDS Social, TLC

MCTours == {{"contacts", "group"}, {"moments", "user"}, {"timeline"}}
MCInit == /\ SocialInit
          /\ acts = IF "contacts" \in tour THEN 0 ELSE 1
          /\ "group" \notin tour \/ friends = {} => \A g \in Group : club[g].owner = None
          /\ "moments" \notin tour => \A m \in MomentId : moments[m] = None
          /\ "timeline" \notin tour => \A p \in PostId : posts[p] = None
          /\ \A p, q \in PostId : p < q /\ posts[p] = None => posts[q] = None
          /\ \A u \in User : privacy[u].mine = ("user" \in tour /\ blocked # {})
          /\ "contacts" \in tour => blocked = {}
          /\ "timeline" \in tour => friends = User \ {Me}
MCSpec == MCInit /\ [][SocialNext]_socialVars
=============================================================================
