----------------------------- MODULE GroupPage -----------------------------
(***************************************************************************)
(* The page of a group (client/src/pages/GroupInfo.tsx): loading it and    *)
(* the trust in its members, inviting, editing, muting, the invitation     *)
(* code, leaving and disbanding.  The other members act too.               *)
(*                                                                         *)
(* A check of the trust in the members is known by the number of the       *)
(* moment it started.  A reload that is under way keeps every other one    *)
(* and every check from starting; the numbers generation and revision of   *)
(* the code discard what is overtaken.  The keys that leave the device     *)
(* with the group are those of GroupDevices.                               *)
(***************************************************************************)
EXTENDS Contacts

VARIABLES group,  \* the state of the open page
          work    \* its requests and checks under way

groupVars == <<group, work>>

NoGroup == [id |-> None, shown |-> None, generation |-> 0, revision |-> 0, refreshing |-> FALSE, error |-> FALSE,
            trust |-> 0, checks |-> 0, muted |-> FALSE, editing |-> None, picked |-> {}, inviting |-> FALSE, code |-> "no"]
GroupInit == group = NoGroup /\ work = {}

Detail(g) == [owner |-> club[g].owner, members |-> club[g].members, name |-> club[g].name]
Keeps == UNCHANGED <<friendVars, tagged, friends, events, contacts, calls, stale, gets>>
\* Nothing but the page and its requests changes.
Local == Keeps /\ UNCHANGED <<club, groups, page, acts>>
OnGroup == page = "group" /\ group.shown # None

Request(w) == w.kind \notin {"detail", "trust", "check"}
TrustCheck(state, kind, generation, revision) ==
  [kind |-> kind, on |-> state.id, no |-> state.checks + 1, muted |-> FALSE,
   generation |-> generation, revision |-> revision]
\* The start of reload, unless it is under way for this group.
Reload(state, pending) ==
  IF state.refreshing THEN group' = state /\ work' = pending
  ELSE /\ group' = [state EXCEPT !.generation = @ + 1, !.revision = @ + 1, !.checks = @ + 1,
                                 !.refreshing = TRUE, !.error = FALSE]
       /\ work' = pending \cup {TrustCheck(state, "detail", state.generation + 1, 0)}

\* The page of a group of the list opens, or the window gets the focus.
OpenGroup(g) == /\ page = Elsewhere /\ page' = "group"
                /\ g \in {k.id : k \in groups}
                /\ Reload([NoGroup EXCEPT !.id = g], work)
                /\ Keeps /\ UNCHANGED <<club, groups, acts>>
FocusGroup == page = "group" /\ Act /\ Reload(group, work) /\ Keeps /\ UNCHANGED <<club, groups, page>>
\* The page closes: what is under way ends without it.
CloseGroup(rest) == group' = NoGroup /\ work' = {[w EXCEPT !.here = FALSE] : w \in {k \in rest : Request(k)}}
LeaveGroup == /\ page = "group" /\ page' = Elsewhere /\ Act /\ CloseGroup(work)
              /\ Keeps /\ UNCHANGED <<club, groups>>

\* The answer with the detail, then the trust in its members.
DetailAnswer(w) == /\ w.kind = "detail" /\ Me \in club[w.on].members
                   /\ group' = [group EXCEPT !.shown = Detail(w.on)]
                   /\ work' = (work \ {w}) \cup {[w EXCEPT !.kind = "trust", !.muted = club[w.on].muted]}
                   /\ Local
TrustAnswer(w) == /\ w.kind = "trust" /\ work' = work \ {w}
                  /\ group' = [group EXCEPT !.trust = w.no, !.muted = w.muted, !.refreshing = FALSE]
                  /\ Local
\* The detail is refused to those who are no members, or does not arrive.
DetailFails(w) == /\ w.kind = "detail" /\ work' = work \ {w}
                  /\ group' = [group EXCEPT !.error = TRUE, !.refreshing = FALSE]
                  /\ (IF Me \in club[w.on].members THEN Act ELSE UNCHANGED acts)
                  /\ Keeps /\ UNCHANGED <<club, groups, page>>

\* An identity changed, or the messages were locked or unlocked.
TrustChanged == /\ OnGroup /\ ~group.refreshing /\ Act
                /\ group' = [group EXCEPT !.revision = @ + 1, !.checks = @ + 1]
                /\ work' = work \cup {TrustCheck(group, "check", group.generation, group.revision + 1)}
                /\ Keeps /\ UNCHANGED <<club, groups, page>>
\* Mutant: the result of a check is shown unless the page was loaded again.
Checked_Any(w) == /\ w.kind = "check" /\ work' = work \ {w}
                  /\ group' = [group EXCEPT !.trust = IF w.generation = group.generation THEN w.no ELSE @]
                  /\ Local
\* The result of a check, unless a later one started.
Checked(w) == /\ w.kind = "check" /\ work' = work \ {w}
              /\ group' = [group EXCEPT !.trust = IF w.generation = group.generation /\ w.revision = group.revision
                                                  THEN w.no ELSE @]
              /\ Local

-----------------------------------------------------------------------------
(* What the user does.                                                     *)

IsOwner == group.shown.owner = Me
FriendsNotInGroup == friends \ group.shown.members
\* A request of the page that the server answers.
Ask(kind, who) == /\ Act
                  /\ work' = work \cup {[kind |-> kind, on |-> group.id, who |-> who, here |-> TRUE]}
                  /\ Keeps /\ UNCHANGED <<club, groups, page>>

ToggleFriend(u) == /\ OnGroup /\ u \in FriendsNotInGroup
                   /\ group' = [group EXCEPT !.picked = SymDiff(@, {u}), !.inviting = TRUE]
                   /\ UNCHANGED work /\ Local
CancelInvite == /\ OnGroup /\ group.inviting
                /\ group' = [group EXCEPT !.picked = {}, !.inviting = FALSE]
                /\ UNCHANGED work /\ Local
InviteFriends == OnGroup /\ group.picked # {} /\ UNCHANGED group /\ Ask("invite", group.picked)

\* Both editors are the owner's; the avatar is sent as it is chosen.
Edit(field) == /\ OnGroup /\ IsOwner /\ group.editing # field
               /\ group' = [group EXCEPT !.editing = field]
               /\ UNCHANGED work /\ Local
SaveEdit == OnGroup /\ group.editing # None /\ UNCHANGED group /\ Ask(group.editing, {})
HandleAvatarChange == OnGroup /\ IsOwner /\ UNCHANGED group /\ Ask("avatar", {})
ToggleMute == OnGroup /\ UNCHANGED group /\ Ask(IF group.muted THEN "unmute" ELSE "mute", {})
\* The code of the invitation opens and closes.
ToggleCode == /\ OnGroup
              /\ IF group.code = "shown" THEN group' = [group EXCEPT !.code = "no"] /\ UNCHANGED work /\ Local
                 ELSE group' = [group EXCEPT !.code = "asked"] /\ Ask("code", {})
Disband == OnGroup /\ IsOwner /\ UNCHANGED group /\ Ask("disband", {})
LeaveForGood == OnGroup /\ ~IsOwner /\ UNCHANGED group /\ Ask("leave", {})

-----------------------------------------------------------------------------
(* What the server does, and the answers.                                  *)

Empty == [owner |-> None, members |-> {}, name |-> 0, muted |-> FALSE]
Without(g, u) == [club EXCEPT ![g].members = @ \ {u}, ![g].muted = IF u = Me THEN FALSE ELSE @]
Fields == {"name", "notice", "avatar"}
Allowed(w) == /\ Me \in club[w.on].members
              /\ w.kind \in Fields \cup {"disband"} => club[w.on].owner = Me

Changed(w) == CASE w.kind = "invite" -> [club EXCEPT ![w.on].members = @ \cup w.who]
                [] w.kind = "name" -> [club EXCEPT ![w.on].name = 1]
                [] w.kind \in {"mute", "unmute"} -> [club EXCEPT ![w.on].muted = (w.kind = "mute")]
                [] w.kind = "leave" -> Without(w.on, Me)
                [] w.kind = "disband" -> [club EXCEPT ![w.on] = Empty]
                [] OTHER -> club
\* saveEdit closes whichever editor is open.
Shown(w) == CASE w.kind = "name" -> [group EXCEPT !.shown.name = 1, !.editing = None]
              [] w.kind = "notice" -> [group EXCEPT !.editing = None]
              [] w.kind \in {"mute", "unmute"} -> [group EXCEPT !.muted = (w.kind = "mute")]
              [] w.kind = "code" -> [group EXCEPT !.code = "shown"]
              [] w.kind = "invite" -> [group EXCEPT !.picked = {}, !.inviting = FALSE]
              [] OTHER -> group
\* The request is served; the list of groups is read again where it may have changed.
Served(w) == /\ Request(w) /\ Allowed(w) /\ w.kind \notin {"leave", "disband"}
             /\ club' = Changed(w)
             /\ IF w.kind \in {"notice", "code"} THEN UNCHANGED groups ELSE GetGroups
             /\ CASE ~w.here -> work' = work \ {w} /\ UNCHANGED group
                  [] w.here /\ w.kind = "invite" -> Reload(Shown(w), work \ {w})
                  [] OTHER -> group' = Shown(w) /\ work' = work \ {w}
             /\ Keeps /\ UNCHANGED <<page, acts>>
\* The list without the group arrives and the chats open, or it does not arrive and the page stays.
Gone(w) == /\ w.kind \in {"leave", "disband"} /\ Allowed(w)
           /\ club' = Changed(w)
           /\ \/ /\ groups' = ListGroups'
                 /\ Turn(Elsewhere, calls) /\ CloseGroup(work \ {w})
                 /\ UNCHANGED acts
              \/ Act /\ work' = work \ {w} /\ UNCHANGED <<groups, group, page, contacts, calls>>
           /\ UNCHANGED <<friendVars, tagged, friends, events, stale, gets>>
RequestFails(w) == /\ Request(w) /\ work' = work \ {w}
                   /\ (IF Allowed(w) THEN Act ELSE UNCHANGED acts)
                   /\ group' = CASE ~w.here -> group
                                 [] w.here /\ w.kind \in {"name", "notice"} -> [group EXCEPT !.editing = None]
                                 [] w.here /\ w.kind = "code" -> [group EXCEPT !.code = "no"]
                                 [] OTHER -> group
                   /\ Keeps /\ UNCHANGED <<club, groups, page>>

\* Other members invite, are removed, remove Me, or rename and disband their group.
OthersChange(g) == /\ Act
                   /\ \/ \E u \in User \ {Me} : /\ club[g].members \ {Me} # {}
                                                /\ club' = [club EXCEPT ![g].members = @ \cup {u}]
                      \/ \E u \in club[g].members \ {club[g].owner} : club' = Without(g, u)
                      \/ /\ club[g].owner \notin {Me, None}
                         /\ club' \in {[club EXCEPT ![g] = Empty], [club EXCEPT ![g].name = 2]}
                   /\ UNCHANGED groupVars /\ Keeps /\ UNCHANGED <<groups, page>>

GroupNext == \/ \E g \in Group : OpenGroup(g) \/ OthersChange(g)
             \/ FocusGroup \/ LeaveGroup \/ TrustChanged \/ CancelInvite \/ InviteFriends
             \/ \E u \in User : ToggleFriend(u)
             \/ \E field \in {"name", "notice"} : Edit(field)
             \/ SaveEdit \/ HandleAvatarChange \/ ToggleMute \/ ToggleCode \/ Disband \/ LeaveForGood
             \/ \E w \in work : \/ DetailAnswer(w) \/ TrustAnswer(w) \/ DetailFails(w) \/ Checked(w)
                                \/ Served(w) \/ Gone(w) \/ RequestFails(w)

\* What another page's navigation does to this one.
GroupStays == IF page' = page THEN UNCHANGED groupVars ELSE CloseGroup(work)

-----------------------------------------------------------------------------
\* The trust shown for the members never goes back to the result of an earlier
\* check, however checks and reloads overlap (trustRevision and refreshGeneration
\* in GroupInfo.tsx).
TrustFreshest ==
  [][group.id # None /\ group'.id = group.id => group'.trust >= group.trust]_<<group, work>>
=============================================================================
