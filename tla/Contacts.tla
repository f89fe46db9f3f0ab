------------------------------ MODULE Contacts ------------------------------
(***************************************************************************)
(* The contacts page (client/src/pages/Contacts.tsx): the lists it reads   *)
(* from the server and keeps in the store, friend requests, groups and     *)
(* tags.  A list of friends or of requests may arrive after a later one,   *)
(* or not at all, and holds the table as it was when it was asked for or   *)
(* as it is when it arrives; the answers to the other GETs come at once or *)
(* never.  The events of the server arrive in order while the socket is    *)
(* open.  The page is left at any time; what it started goes on, and only  *)
(* the store and the navigation see its end.  The tab is not kept: every   *)
(* tab is one tap away.  A name is not empty, and a group is made once.    *)
(***************************************************************************)
EXTENDS Friendships, Sequences, SequencesExt

CONSTANTS Group, Tag, None,
          MaxActs   \* bound on what the users and the network do

ASSUME ContactsAssumption == None \notin User \cup Group \cup Tag /\ MaxActs \in Nat

VARIABLES
  club,     \* groups on the server: owner, members, name, and whether Me muted it
  tagged,   \* tags of Me on the server, and the friends under each
  page,     \* the page that is open
  acts,
  friends, groups,  \* lists of the store
  gets,     \* GETs of the friends under way, in the order they were sent
  events,   \* friend events on their way to Me
  contacts, \* the state of the open contacts page
  calls,    \* POSTs and DELETEs of the contacts page under way
  stale     \* an event or an answer about friends was lost or overtaken since the last load

contactVars == <<club, tagged, friends, groups, gets, events, contacts, calls, stale>>

Elsewhere == "elsewhere"
\* Another page acts.
Apart == UNCHANGED <<friendVars, contactVars>>
Act == acts < MaxActs /\ acts' = acts + 1
NoTags == [on |-> {}, of |-> [t \in Tag |-> {}]]
\* view: the lists, or a tag whose friends are assigned or listed; asked: lists of requests under way
Closed == [view |-> "main", tag |-> None, requests |-> {}, asked |-> {}, tags |-> NoTags, sent |-> {}]

-----------------------------------------------------------------------------
(* The lists.                                                              *)

ListFriends == {u \in User \ {Me} : row[<<Me, u>>] = "accepted"}
ListRequests == {u \in User \ {Me} : row[<<u, Me>>] = "pending"}
ListGroups == {[id |-> g, name |-> club[g].name, muted |-> club[g].muted] :
                 g \in {k \in Group : Me \in club[k].members}}
GetGroups == groups' \in {groups, ListGroups'}

GetFriends(then) == gets' = Append(gets, [seen |-> ListFriends, then |-> then])

\* loadContacts asks for everything; what is asked for now makes up for what was lost before.
LoadContacts(state) == /\ GetFriends(None) /\ GetGroups
                       /\ \E tags \in {state.tags, tagged} :
                            contacts' = [state EXCEPT !.asked = @ \cup {ListRequests}, !.tags = tags]
                       /\ stale' = FALSE

ContactsInit == /\ FriendsInit /\ tagged = NoTags /\ page = Elsewhere /\ acts \in 0..MaxActs
                /\ club \in [Group -> {[owner |-> o, members |-> {o, Me}, name |-> 0, muted |-> FALSE] : o \in User}
                                      \cup {[owner |-> None, members |-> {}, name |-> 0, muted |-> FALSE]}]
                /\ friends = ListFriends /\ groups = ListGroups /\ gets = << >> /\ events = << >>
                /\ contacts = Closed /\ calls = {} /\ stale = FALSE

\* Another page opens: the state of the page is gone, and what it started is not its successor's.
Turn(to, rest) == /\ page' = to
                  /\ contacts' = Closed
                  /\ calls' = {[c EXCEPT !.here = FALSE] : c \in rest}
OpenContacts == /\ page = Elsewhere /\ page' = "contacts"
                /\ UNCHANGED <<friendVars, club, tagged, friends, events, calls, acts>>
                /\ LoadContacts(Closed)
LeaveContacts == /\ page = "contacts" /\ Turn(Elsewhere, calls)
                 /\ Act
                 /\ UNCHANGED <<friendVars, club, tagged, friends, groups, gets, events, stale>>
\* The window gets the focus.
Focus == /\ page = "contacts" /\ Act
         /\ UNCHANGED <<friendVars, club, tagged, page, friends, events, calls>>
         /\ LoadContacts(contacts)

\* A list of friends arrives; after an acceptance the profile opens, wherever the user is by now.
FriendsArrive(i) == /\ friends' \in {gets[i].seen, ListFriends}
                    /\ stale' = (stale \/ i > 1)
                    /\ gets' = RemoveAt(gets, i)
                    /\ IF gets[i].then = "profile" THEN Turn(Elsewhere, calls) ELSE UNCHANGED <<page, contacts, calls>>
                    /\ UNCHANGED <<friendVars, club, tagged, groups, events, acts>>
FriendsFail(i) == /\ Act /\ gets' = RemoveAt(gets, i) /\ stale' = TRUE
                  /\ UNCHANGED <<friendVars, club, tagged, page, friends, groups, events, contacts, calls>>
RequestsArrive(v) == /\ contacts' = [contacts EXCEPT !.asked = @ \ {v}, !.requests = v]
                     /\ UNCHANGED <<friendVars, club, tagged, page, acts, friends, groups, gets, events, calls, stale>>

\* The two listeners of the page.
FriendEvent == /\ events # << >> /\ events' = Tail(events)
               /\ IF page = "contacts" /\ Head(events) = "friend_accepted"
                  THEN GetFriends(None) ELSE UNCHANGED gets
               /\ contacts' = IF page = "contacts" /\ Head(events) = "friend_request"
                              THEN [contacts EXCEPT !.asked = @ \cup {ListRequests}] ELSE contacts
               /\ UNCHANGED <<friendVars, club, tagged, page, acts, friends, groups, calls, stale>>
EventsLost == /\ events # << >> /\ Act /\ events' = << >> /\ stale' = TRUE
              /\ UNCHANGED <<friendVars, club, tagged, page, friends, groups, gets, contacts, calls>>

-----------------------------------------------------------------------------
(* Friend requests, of Me and of the others.                               *)

Begun(op, u) == contacts' = [contacts EXCEPT !.sent = @ \cup {<<op, u>>}]
\* The search finds anybody, and offers a request to those the list does not show as friends.
Found == User \ {Me}
Addable == Found \ friends
SendFriendRequest(u) == /\ page = "contacts" /\ contacts.view = "main" /\ u \in Addable
                        /\ Act /\ Call("request", Me, u) /\ Begun("request", u)
                        /\ UNCHANGED <<club, tagged, page, friends, groups, gets, events, calls, stale>>
AcceptRequest(u) == /\ page = "contacts" /\ contacts.view = "main" /\ u \in contacts.requests
                    /\ Act /\ Call("accept", Me, u) /\ Begun("accept", u)
                    /\ UNCHANGED <<club, tagged, page, friends, groups, gets, events, calls, stale>>
OthersCall == /\ Act /\ \E op \in {"request", "accept"}, u \in User \ {Me} : Call(op, u, Me)
              /\ UNCHANGED <<club, tagged, page, friends, groups, gets, events, contacts, calls, stale>>

\* The handlers of the server; Me hears of the others' acts by an event.
Push(h, event) == events' = IF h.to = Me THEN Append(events, event) ELSE events
Quietly == UNCHANGED <<events, stale>>
Serve(h) == /\ \/ Look(h) /\ Quietly
               \/ Write(h) /\ Quietly
               \/ Confirm(h) /\ Quietly
               \/ Check(h) /\ (IF Requested(h) THEN Push(h, "friend_request") ELSE UNCHANGED events) /\ UNCHANGED stale
               \/ Return(h) /\ Push(h, "friend_accepted") /\ UNCHANGED stale
               \* nobody is told of a repaired friendship
               \/ Repair(h) /\ stale' = (stale \/ h.by # Me) /\ UNCHANGED events
            /\ UNCHANGED <<club, tagged, page, acts, friends, groups, gets, contacts, calls>>
Fault(h) == /\ Act /\ Abort(h)
            /\ stale' = (stale \/ h.at = "reverse")
            /\ UNCHANGED <<club, tagged, page, friends, groups, gets, events, contacts, calls>>

Here(h) == <<h.op, h.to>> \in contacts.sent
Settled(h) == [contacts EXCEPT !.sent = @ \ {<<h.op, h.to>>},
                               !.requests = IF h.op = "accept" /\ h.at = "ok" THEN @ \ {h.to} ELSE @]
\* Mutant: the new friend is expected to arrive with an event.
CallAnswer_NoReload(h) == /\ Answered(h)
                          /\ contacts' = IF Here(h) THEN Settled(h) ELSE contacts
                          /\ UNCHANGED <<club, tagged, page, acts, friends, groups, gets, events, calls, stale>>
\* The answer to an accepted request, or that the two are friends already, reads the list again.
CallAnswer(h) == /\ Answered(h)
                 /\ contacts' = IF Here(h) THEN Settled(h) ELSE contacts
                 /\ CASE h.op = "accept" /\ h.at = "ok" -> GetFriends("profile")
                      [] h.at = "already" -> GetFriends(None)
                      [] OTHER -> UNCHANGED gets
                 /\ UNCHANGED <<club, tagged, page, acts, friends, groups, events, calls, stale>>
AnswerLost(h) == /\ Act /\ Answered(h) /\ stale' = TRUE
                 /\ contacts' = [contacts EXCEPT !.sent = @ \ {<<h.op, h.to>>}]
                 /\ UNCHANGED <<club, tagged, page, friends, groups, gets, events, calls>>

-----------------------------------------------------------------------------
(* Groups and tags.                                                        *)

InLists == page = "contacts" /\ contacts.view = "main"
\* Both views of a tag go back to the lists.
ShowTag(v, t) == /\ InLists /\ v # "main" /\ t \in contacts.tags.on
                 /\ contacts' = [contacts EXCEPT !.view = v, !.tag = t]
                 /\ UNCHANGED <<friendVars, club, tagged, page, acts, friends, groups, gets, events, calls, stale>>
Back == /\ page = "contacts" /\ contacts.view # "main"
        /\ contacts' = [contacts EXCEPT !.view = "main", !.tag = None]
        /\ UNCHANGED <<friendVars, club, tagged, page, acts, friends, groups, gets, events, calls, stale>>

\* The friends each view lists: under one tag, or under every tag and under none.
Filtered == friends \cap contacts.tags.of[contacts.tag]
FriendTags(u) == {t \in contacts.tags.on : u \in contacts.tags.of[t]}
Section(t) == friends \cap contacts.tags.of[t]
Untagged == {u \in friends : FriendTags(u) = {}}
Listed == IF contacts.view = "filter" THEN Filtered
          ELSE UNION {Section(t) : t \in contacts.tags.on} \cup Untagged
\* A friend or a group in a list opens the chat.
OpenChat == /\ contacts.view \in {"main", "filter"}
            /\ Listed # {} \/ (InLists /\ groups # {})
            /\ LeaveContacts

Begin(kind, on, who) == /\ page = "contacts" /\ Act
                        /\ calls' = calls \cup {[kind |-> kind, on |-> on, who |-> who, here |-> TRUE,
                                                 tapped |-> contacts.tags.of]}
                        /\ UNCHANGED <<friendVars, club, tagged, page, friends, groups, gets, events, contacts, stale>>
\* The dialog offers the friends of the list.
CreateGroup(g, who) == InLists /\ who \subseteq friends /\ club[g].members = {} /\ Begin("group", g, who)
CreateTag(t) == InLists /\ t \notin tagged.on /\ Begin("create", t, {})
DeleteTag(t) == InLists /\ t \in contacts.tags.on /\ Begin("delete", t, {})
ToggleFriendTag(u) == /\ contacts.view = "assign" /\ u \in friends
                      /\ Begin(IF u \in contacts.tags.of[contacts.tag] THEN "unassign" ELSE "assign", contacts.tag, {u})

\* What the server makes of a call, and the page of its answer; assign and unassign
\* are refused when the tag is gone.
Done(c, tags) == CASE c.kind = "create" -> [tags EXCEPT !.on = @ \cup {c.on}]
                   [] c.kind = "delete" -> [on |-> tags.on \ {c.on}, of |-> [tags.of EXCEPT ![c.on] = {}]]
                   [] c.kind = "assign" -> [tags EXCEPT !.of[c.on] = @ \cup c.who]
                   [] c.kind = "unassign" -> [tags EXCEPT !.of[c.on] = @ \ c.who]
\* deleteTag writes back the assignments it was tapped with.
Deleted(c, state) == LET gone == state.tag = c.on IN
  [state EXCEPT !.tags = [on |-> @.on \ {c.on}, of |-> [c.tapped EXCEPT ![c.on] = {}]],
                !.view = IF gone THEN "main" ELSE @, !.tag = IF gone THEN None ELSE @]
Known(c) == c.kind \in {"assign", "unassign"} => c.on \in tagged.on
TagAnswer(c) == /\ c.kind # "group" /\ Known(c) /\ calls' = calls \ {c}
                /\ tagged' = Done(c, tagged)
                /\ contacts' = CASE ~c.here -> contacts
                                 [] c.here /\ c.kind = "delete" -> Deleted(c, contacts)
                                 [] OTHER -> [contacts EXCEPT !.tags = Done(c, @)]
                /\ UNCHANGED <<friendVars, club, page, acts, friends, groups, gets, events, stale>>
\* The chat of the new group opens, wherever the user is by now.
GroupAnswer(c) == /\ c.kind = "group"
                  /\ club' = [club EXCEPT ![c.on].owner = Me, ![c.on].members = {Me} \cup c.who]
                  /\ GetGroups
                  /\ Turn(Elsewhere, calls \ {c})
                  /\ UNCHANGED <<friendVars, tagged, acts, friends, gets, events, stale>>
CallFails(c) == /\ (IF Known(c) THEN Act ELSE UNCHANGED acts)
                /\ calls' = calls \ {c}
                /\ UNCHANGED <<friendVars, club, tagged, page, friends, groups, gets, events, contacts, stale>>

ContactsNext ==
  \/ OpenContacts \/ LeaveContacts \/ OpenChat \/ Focus \/ FriendEvent \/ EventsLost
  \/ \E i \in DOMAIN gets : FriendsArrive(i) \/ FriendsFail(i)
  \/ \E v \in contacts.asked : RequestsArrive(v)
  \/ OthersCall \/ Back
  \/ \E u \in User : SendFriendRequest(u) \/ AcceptRequest(u) \/ ToggleFriendTag(u)
  \/ \E h \in handlers : Serve(h) \/ Fault(h) \/ CallAnswer(h) \/ AnswerLost(h)
  \/ \E t \in Tag : \/ \E v \in {"assign", "filter"} : ShowTag(v, t)
                    \/ CreateTag(t) \/ DeleteTag(t)
  \/ \E g \in Group : \E who \in SUBSET User : CreateGroup(g, who)
  \/ \E c \in calls : TagAnswer(c) \/ GroupAnswer(c) \/ CallFails(c)

-----------------------------------------------------------------------------
\* When nothing is under way and no event or answer was lost or overtaken, the open
\* page lists the friends of the table, whoever asked and whoever accepted
\* (the listeners and the handlers of Contacts.tsx).
ListsShowFriends ==
  page = "contacts" /\ handlers = {} /\ events = << >> /\ gets = << >> /\ ~stale
  => friends = ListFriends
=============================================================================
