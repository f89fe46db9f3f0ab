---------------------------- MODULE SocialProofs ----------------------------
(***************************************************************************)
(* What the social pages show and what the server holds, for any users,    *)
(* groups, tags and posts, and any overlapping of what is under way.       *)
(*                                                                         *)
(* Friendships are mutual.  Mutual alone is not inductive: the second      *)
(* statement of an acceptance makes one direction accepted, which is right *)
(* only because the first statement made the other one so (Reversing), and *)
(* because no statement takes an accepted row back.                        *)
(*                                                                         *)
(* What a page shows is right when nothing is under way: the invariants    *)
(* say for every other state why it will be.  The list asked for last is   *)
(* right, or something under way will ask again (ListsRight, MomentsRight, *)
(* WallRight).  The trust of a group never goes back because a result that *)
(* will be accepted is that of the last check that started (Current).      *)
(***************************************************************************)
EXTENDS Social, TLAPS, SequenceTheorems, WellFoundedInduction

\* An acceptance between its statements has the row of the requester.
Reversing == \A h \in handlers : h.at = "reverse" => row[Other(h)] = "accepted"

FriendsInv == FriendsTypeOK /\ Reversing /\ Mutual

-----------------------------------------------------------------------------
\* The inverse of a pair is a pair, and so are the two rows of a call.
LEMMA Pairs ==
  /\ \A p \in Pair : <<p[2], p[1]>> \in Pair /\ p = <<p[1], p[2]>>
  /\ \A h \in Handler : h.by # h.to => Own(h) \in Pair /\ Other(h) \in Pair
BY DEF Pair, Own, Other, Handler

\* A step of a call moves it, or ends it, and leaves the other calls as they are.
Moved(h, place) == handlers' \in {handlers \ {h}, (handlers \ {h}) \cup {[h EXCEPT !.at = place]}}

LEMMA Moves ==
  ASSUME FriendsTypeOK, NEW h \in handlers, NEW place \in Running \cup Result, Moved(h, place)
  PROVE  /\ handlers' \subseteq {k \in Handler : k.by # k.to}
         /\ \A k \in handlers : k # h => k \in handlers'
         /\ \A k \in handlers' : k \in handlers \/ (k.at = place /\ k.op = h.op /\ k.by = h.by /\ k.to = h.to)
<1>1. h \in Handler /\ h.by # h.to
  BY DEF FriendsTypeOK
<1>2. /\ [h EXCEPT !.at = place] \in Handler
      /\ [h EXCEPT !.at = place].op = h.op /\ [h EXCEPT !.at = place].by = h.by /\ [h EXCEPT !.at = place].to = h.to
      /\ [h EXCEPT !.at = place].at = place
  BY <1>1 DEF Handler
<1>3. CASE handlers' = handlers \ {h}
  BY <1>3 DEF FriendsTypeOK
<1>4. CASE handlers' = (handlers \ {h}) \cup {[h EXCEPT !.at = place]}
  BY <1>1, <1>2, <1>4 DEF FriendsTypeOK
<1> QED
  BY <1>3, <1>4 DEF Moved

\* The calls between two statements are still right when no row is taken back and
\* only Confirm moves a call there.
LEMMA ReversingKept ==
  ASSUME FriendsInv, NEW h \in handlers, NEW place \in Running \cup Result, Moved(h, place),
         \A p \in Pair : row[p] = "accepted" => row'[p] = "accepted",
         place = "reverse" => row'[Other(h)] = "accepted"
  PROVE  Reversing'
<1> SUFFICES ASSUME NEW k \in handlers', k.at = "reverse" PROVE row'[Other(k)] = "accepted"
  BY DEF Reversing, Other
<1>1. CASE k \in handlers
  <2>1. row[Other(k)] = "accepted"
    BY <1>1 DEF FriendsInv, Reversing
  <2>2. Other(k) \in Pair
    BY <1>1, Pairs DEF FriendsInv, FriendsTypeOK
  <2> QED
    BY <2>1, <2>2
<1>2. CASE k.at = place /\ k.by = h.by /\ k.to = h.to
  BY <1>2 DEF Other
<1> QED
  BY <1>1, <1>2, Moves DEF FriendsInv

\* A step that makes no row accepted keeps the invariant, if an acceptance that ends
\* between its statements is noted as broken or had both rows already.
LEMMA NothingAccepted ==
  ASSUME FriendsInv, NEW h \in handlers, NEW place \in (Running \cup Result) \ {"reverse"}, Moved(h, place),
         row' \in [Pair -> Status], \A p \in Pair : row'[p] = "accepted" <=> row[p] = "accepted",
         broken \subseteq broken',
         h.at = "reverse" => Both(h) \in broken' \/ row[Own(h)] = "accepted"
  PROVE  FriendsInv'
<1>1. FriendsTypeOK'
  BY Moves DEF FriendsInv, FriendsTypeOK
<1>2. Reversing'
  BY ReversingKept DEF FriendsInv
<1>3. Mutual'
  <2> SUFFICES ASSUME NEW p \in Pair, row[p] = "accepted",
                      row[<<p[2], p[1]>>] # "accepted", {p[1], p[2]} \notin broken'
               PROVE  \E k \in handlers' : k.at = "reverse" /\ Both(k) = {p[1], p[2]}
    BY Pairs DEF Mutual, Both
  <2>1. PICK k \in handlers : k.at = "reverse" /\ Both(k) = {p[1], p[2]}
    BY DEF FriendsInv, Mutual
  <2>2. k # h
    <3> SUFFICES ASSUME k = h PROVE FALSE
      OBVIOUS
    <3>1. row[Own(h)] = "accepted" /\ row[Other(h)] = "accepted"
      BY <2>1 DEF FriendsInv, Reversing
    <3>2. <<p[2], p[1]>> \in {Own(h), Other(h)}
      BY <2>1 DEF Both, Own, Other, FriendsInv, FriendsTypeOK, Handler, Pair
    <3> QED
      BY <3>1, <3>2
  <2> QED
    BY <2>1, <2>2, Moves DEF FriendsInv
<1> QED
  BY <1>1, <1>2, <1>3 DEF FriendsInv

\* A step that makes both rows of its call accepted keeps the invariant.
LEMMA BothAccepted ==
  ASSUME FriendsInv, NEW h \in handlers, NEW place \in (Running \cup Result) \ {"reverse"}, Moved(h, place),
         row' = [row EXCEPT ![Own(h)] = "accepted", ![Other(h)] = "accepted"],
         broken \ {Both(h)} \subseteq broken'
  PROVE  FriendsInv'
<1>1. /\ Own(h) \in Pair /\ Other(h) \in Pair
      /\ \A p \in Pair : row'[p] = IF p \in {Own(h), Other(h)} THEN "accepted" ELSE row[p]
  BY Pairs DEF FriendsInv, FriendsTypeOK
<1>2. FriendsTypeOK'
  BY Moves DEF FriendsInv, FriendsTypeOK, Status
<1>3. Reversing'
  BY <1>1, ReversingKept DEF FriendsInv
<1>4. Mutual'
  <2> SUFFICES ASSUME NEW p \in Pair, row'[p] = "accepted",
                      row'[<<p[2], p[1]>>] # "accepted", {p[1], p[2]} \notin broken'
               PROVE  \E k \in handlers' : k.at = "reverse" /\ Both(k) = {p[1], p[2]}
    BY DEF Mutual, Both
  <2>1. <<p[2], p[1]>> \in Pair /\ p = <<p[1], p[2]>>
    BY Pairs
  <2>2. <<p[2], p[1]>> \notin {Own(h), Other(h)}
    BY <1>1, <2>1
  <2>3. p \notin {Own(h), Other(h)} /\ {p[1], p[2]} # Both(h)
    BY <2>1, <2>2 DEF Own, Other, Both
  <2>4. PICK k \in handlers : k.at = "reverse" /\ Both(k) = {p[1], p[2]}
    BY <1>1, <2>1, <2>2, <2>3 DEF FriendsInv, Mutual
  <2> QED
    BY <2>3, <2>4, Moves DEF FriendsInv
<1> QED
  BY <1>2, <1>3, <1>4 DEF FriendsInv

\* The first statement of an acceptance keeps the invariant: its call is between the two.
LEMMA Confirmed ==
  ASSUME FriendsInv, NEW h \in handlers, h.at = "confirm", At(h, "reverse"),
         row' = [row EXCEPT ![Other(h)] = "accepted"], broken' = broken
  PROVE  FriendsInv'
<1>1. /\ Other(h) \in Pair /\ h \in Handler
      /\ \A p \in Pair : row'[p] = IF p = Other(h) THEN "accepted" ELSE row[p]
  BY Pairs DEF FriendsInv, FriendsTypeOK
<1>2. Moved(h, "reverse") /\ "reverse" \in Running \cup Result
  BY DEF Moved, At, Running
<1>3. FriendsTypeOK'
  BY <1>2, Moves DEF FriendsInv, FriendsTypeOK, Status
<1>4. Reversing'
  BY <1>1, <1>2, ReversingKept DEF FriendsInv
<1>5. PICK now \in handlers' : now.at = "reverse" /\ Both(now) = Both(h)
  <2>1. [h EXCEPT !.at = "reverse"] \in handlers'
    BY DEF At
  <2> QED
    BY <1>1, <2>1 DEF Both, Handler
<1>6. Mutual'
  <2> SUFFICES ASSUME NEW p \in Pair, row'[p] = "accepted",
                      row'[<<p[2], p[1]>>] # "accepted", {p[1], p[2]} \notin broken'
               PROVE  \E k \in handlers' : k.at = "reverse" /\ Both(k) = {p[1], p[2]}
    BY DEF Mutual, Both
  <2>1. <<p[2], p[1]>> \in Pair /\ p = <<p[1], p[2]>>
    BY Pairs
  <2>2. CASE p = Other(h)
    BY <1>5, <2>2 DEF Other, Both
  <2>3. CASE p # Other(h)
    <3>1. PICK k \in handlers : k.at = "reverse" /\ Both(k) = {p[1], p[2]}
      BY <1>1, <2>1, <2>3 DEF FriendsInv, Mutual
    <3> QED
      BY <1>2, <3>1, Moves DEF FriendsInv
  <2> QED
    BY <2>2, <2>3
<1> QED
  BY <1>3, <1>4, <1>6 DEF FriendsInv

-----------------------------------------------------------------------------
\* Every step keeps the invariant.
LEMMA FriendsStep == FriendsInv /\ [FriendsNext]_friendVars => FriendsInv'
<1> SUFFICES ASSUME FriendsInv, [FriendsNext]_friendVars PROVE FriendsInv'
  OBVIOUS
<1> USE DEF Moved
<1>1. ASSUME NEW op \in {"request", "accept"}, NEW by \in User, NEW to \in User, Call(op, by, to)
      PROVE  FriendsInv'
  <2> DEFINE new == [op |-> op, by |-> by, to |-> to, at |-> IF op = "request" THEN "look" ELSE "confirm"]
  <2>1. new \in Handler /\ new.by # new.to /\ new.at # "reverse"
    BY <1>1 DEF Handler, Call, Running
  <2>2. handlers' = handlers \cup {new} /\ row' = row /\ broken' = broken
    BY <1>1 DEF Call
  <2> HIDE DEF new
  <2> QED
    BY <2>1, <2>2 DEF FriendsInv, FriendsTypeOK, Reversing, Mutual, Other, Both
<1>2. ASSUME NEW h \in handlers, Repair(h) PROVE FriendsInv'
  <2>1. Moved(h, "already") /\ "already" \in (Running \cup Result) \ {"reverse"}
    BY <1>2 DEF Repair, Ends, At, Result
  <2> QED
    BY <1>2, <2>1, BothAccepted DEF Repair
<1>3. ASSUME NEW h \in handlers, Look(h) PROVE FriendsInv'
  <2>1. PICK place \in {"refused", "write"} : Moved(h, place)
    BY <1>3 DEF Look, Ends, At
  <2> QED
    BY <1>3, <2>1, NothingAccepted DEF Look, Running, Result, FriendsInv, FriendsTypeOK
<1>4. ASSUME NEW h \in handlers, Write(h) PROVE FriendsInv'
  <2>1. Moved(h, "check") /\ "check" \in (Running \cup Result) \ {"reverse"}
    BY <1>4 DEF Write, At, Running
  <2>2. Own(h) \in Pair
    BY Pairs DEF FriendsInv, FriendsTypeOK
  <2>3. row' \in [Pair -> Status] /\ \A p \in Pair : row'[p] = "accepted" <=> row[p] = "accepted"
    BY <1>4, <2>2 DEF Write, FriendsInv, FriendsTypeOK, Status
  <2> QED
    BY <1>4, <2>1, <2>3, NothingAccepted DEF Write
<1>5. ASSUME NEW h \in handlers, Check(h) PROVE FriendsInv'
  <2>1. PICK place \in {"ok", "refused"} : Moved(h, place)
    BY <1>5 DEF Check, Ends, At
  <2> QED
    BY <1>5, <2>1, NothingAccepted DEF Check, Result, FriendsInv, FriendsTypeOK
<1>6. ASSUME NEW h \in handlers, Confirm(h) PROVE FriendsInv'
  <2>1. CASE row[Other(h)] = "pending"
    BY <1>6, <2>1, Confirmed DEF Confirm
  <2>2. CASE row[Other(h)] # "pending"
    <3>1. Moved(h, "refused") /\ "refused" \in (Running \cup Result) \ {"reverse"}
      BY <1>6, <2>2 DEF Confirm, Ends, At, Result
    <3> QED
      BY <1>6, <2>2, <3>1, NothingAccepted DEF Confirm, FriendsInv, FriendsTypeOK
  <2> QED
    BY <2>1, <2>2
<1>7. ASSUME NEW h \in handlers, Return(h) PROVE FriendsInv'
  <2>1. Moved(h, "ok") /\ "ok" \in (Running \cup Result) \ {"reverse"}
    BY <1>7 DEF Return, Ends, At, Result
  <2>2. row[Other(h)] = "accepted"
    BY <1>7 DEF Return, FriendsInv, Reversing
  <2>3. Own(h) # Other(h) /\ Own(h) \in Pair /\ Other(h) \in Pair
    BY Pairs DEF FriendsInv, FriendsTypeOK, Own, Other
  <2>4. row' = [row EXCEPT ![Own(h)] = "accepted", ![Other(h)] = "accepted"]
    BY <1>7, <2>2, <2>3 DEF Return, FriendsInv, FriendsTypeOK
  <2> QED
    BY <1>7, <2>1, <2>4, BothAccepted DEF Return
<1>8. ASSUME NEW h \in handlers, Abort(h) PROVE FriendsInv'
  <2>1. Moved(h, "refused") /\ "refused" \in (Running \cup Result) \ {"reverse"}
    BY <1>8 DEF Abort, Ends, At, Result
  <2> QED
    BY <1>8, <2>1, NothingAccepted DEF Abort, FriendsInv, FriendsTypeOK
<1>9. ASSUME NEW h \in handlers, Answered(h) PROVE FriendsInv'
  <2>1. Moved(h, "ok") /\ "ok" \in (Running \cup Result) \ {"reverse"}
    BY <1>9 DEF Answered, Result
  <2>2. h.at # "reverse"
    BY <1>9 DEF Answered, Result
  <2> QED
    BY <1>9, <2>1, <2>2, NothingAccepted DEF Answered, FriendsInv, FriendsTypeOK
<1>10. CASE UNCHANGED friendVars
  BY <1>10 DEF friendVars, FriendsInv, FriendsTypeOK, Reversing, Mutual, Other, Both
<1> QED
  BY <1>1, <1>2, <1>3, <1>4, <1>5, <1>6, <1>7, <1>8, <1>9, <1>10 DEF FriendsNext

\* Friendships are mutual in every state (send_request and accept_request in
\* friends.rs), but for the window between the two statements of an acceptance.
THEOREM FriendshipIsMutual == FriendsSpec => []Mutual
<1>1. FriendsInit => FriendsInv
  <2> SUFFICES ASSUME FriendsInit PROVE FriendsInv
    OBVIOUS
  <2>1. FriendsTypeOK
    BY DEF FriendsInit, FriendsTypeOK, Status
  <2> QED
    BY <2>1, Pairs DEF FriendsInit, FriendsInv, Reversing, Mutual
<1>2. FriendsInv => Mutual
  BY DEF FriendsInv
<1> QED
  BY <1>1, <1>2, FriendsStep, PTL DEF FriendsSpec

-----------------------------------------------------------------------------
(* The contacts page.                                                      *)

\* A step of the pages is a step of the friendships, or leaves them alone.
LEMMA SocialIsFriends == SocialNext => [FriendsNext]_friendVars
<1> SUFFICES ASSUME SocialNext, ~UNCHANGED friendVars PROVE FriendsNext
  OBVIOUS
<1> USE MeAssumption
<1>1. ContactsNext
  BY DEF SocialNext, GroupNext, ProfileNext, MomentsNext, TimelineNext, Apart, Keeps, Local, Ask, InMoments, InTimeline,
         OpenGroup, OthersChange, FocusGroup, LeaveGroup, TrustChanged, CancelInvite, InviteFriends, ToggleFriend, Edit,
         SaveEdit, HandleAvatarChange, ToggleMute, ToggleCode, Disband, LeaveForGood, DetailAnswer, TrustAnswer,
         DetailFails, Checked, Served, Gone, RequestFails, OpenProfile, LeaveProfile, PrivacyArrives, Errand,
         HandleTogglePrivacy, SaveRemark, HandleReport, HandleBlock, HandleUnblock, ErrandDone, ErrandFails,
         OpenMoments, LeaveMoments, ComposeMoment, PublishMoment, OthersMoments, MomentsArrive, MomentsLost, ToggleLike,
         SubmitComment, DeleteMoment, ReportMoment, AskMoment, MomentAnswer, MomentFails, MomentPublished,
         MomentNotPublished, OpenTimeline, LeaveTimeline, BackToPosts, OthersPost, OpenPost, Arrives, LoadFails,
         LikePost, CommentPost, DeletePost, ReportPost, Deed, DeedDone, DeedFails, ComposePost, PublishPost,
         PostPublished, PostNotPublished
<1>2. CASE OthersCall
  BY <1>2 DEF OthersCall, FriendsNext
<1>3. ASSUME NEW u \in User, SendFriendRequest(u) PROVE FriendsNext
  BY <1>3 DEF SendFriendRequest, FriendsNext
<1>4. ASSUME NEW u \in User, AcceptRequest(u) PROVE FriendsNext
  BY <1>4 DEF AcceptRequest, FriendsNext
<1>5. ASSUME NEW h \in handlers, Serve(h) \/ Fault(h) \/ CallAnswer(h) \/ AnswerLost(h) PROVE FriendsNext
  BY <1>5 DEF Serve, Fault, CallAnswer, AnswerLost, FriendsNext
<1> QED
  BY <1>1, <1>2, <1>3, <1>4, <1>5 DEF ContactsNext, OpenContacts, LeaveContacts, OpenChat, Focus, FriendEvent,
     EventsLost, FriendsArrive, FriendsFail, RequestsArrive, Back, ToggleFriendTag, Begin, ShowTag, CreateTag,
     DeleteTag, CreateGroup, TagAnswer, GroupAnswer, CallFails

\* The friendships stay mutual whatever is done on the pages.
LEMMA SocialFriends == FriendsInv /\ [SocialNext]_socialVars => FriendsInv'
<1>1. UNCHANGED socialVars => UNCHANGED friendVars
  BY DEF socialVars
<1> QED
  BY <1>1, SocialIsFriends, FriendsStep

\* What the other pages do to the lists of the contacts page: at most they read the friends again.
LEMMA OtherPagesRead ==
  ASSUME GroupNext \/ ProfileNext \/ MomentsNext \/ TimelineNext
  PROVE  /\ UNCHANGED <<row, handlers, friends, events, stale>>
         /\ UNCHANGED gets \/ GetFriends(None)
         /\ page' = "contacts" => page = "contacts"
<1> USE DEF friendVars, contactVars, Apart, Elsewhere
<1>1. CASE GroupNext
  BY <1>1 DEF GroupNext, Keeps, Local, Ask, OpenGroup, OthersChange, FocusGroup, LeaveGroup, TrustChanged, CancelInvite,
         InviteFriends, ToggleFriend, Edit, SaveEdit, HandleAvatarChange, ToggleMute, ToggleCode, Disband, LeaveForGood,
         DetailAnswer, TrustAnswer, DetailFails, Checked, Served, Gone, RequestFails, Turn
<1>2. CASE ProfileNext
  BY <1>2 DEF ProfileNext, OpenProfile, LeaveProfile, PrivacyArrives, Errand, HandleTogglePrivacy, SaveRemark,
         HandleReport, HandleBlock, HandleUnblock, ErrandDone, ErrandFails
<1>3. CASE MomentsNext
  BY <1>3 DEF MomentsNext, InMoments, OpenMoments, LeaveMoments, ComposeMoment, PublishMoment, OthersMoments,
         MomentsArrive, MomentsLost, ToggleLike, SubmitComment, DeleteMoment, ReportMoment, AskMoment, MomentAnswer,
         MomentFails, MomentPublished, MomentNotPublished
<1>4. CASE TimelineNext
  BY <1>4 DEF TimelineNext, InTimeline, OpenTimeline, LeaveTimeline, BackToPosts, OthersPost, OpenPost, Arrives,
         LoadFails, LikePost, CommentPost, DeletePost, ReportPost, Deed, DeedDone, DeedFails, ComposePost, PublishPost,
         PostPublished, PostNotPublished
<1> QED
  BY <1>1, <1>2, <1>3, <1>4

-----------------------------------------------------------------------------
\* The lists and the events under way.
ListsTypeOK == /\ gets \in Seq([seen : SUBSET User, then : {None, "profile"}])
               /\ events \in Seq({"friend_request", "friend_accepted"})
               /\ stale \in BOOLEAN

\* The calls under way are to or of Me, and only an acceptance has two statements.
CallsOfMe == \A h \in handlers : Me \in Both(h) /\ (h.at \in {"confirm", "reverse"} => h.op = "accept")

\* Something under way will make the page read the friends again: an event, or the end of a call.
Promise(h) == h.at = "reverse" \/ (h.by = Me /\ (h.at = "already" \/ (h.op = "accept" /\ h.at = "ok")))
Announced == \/ \E i \in DOMAIN events : events[i] = "friend_accepted"
             \/ \E h \in handlers : Promise(h)
\* The list that arrives last, or the one that is shown, holds the friends of the table.
Latest == IF gets = << >> THEN friends = ListFriends ELSE gets[Len(gets)].seen = ListFriends
ListsRight == page = "contacts" /\ ~stale => Announced \/ Latest

ListsInv == ListsTypeOK /\ CallsOfMe /\ ListsRight

\* What is asked for last is what the page will show.
LEMMA ReadAgain ==
  ASSUME ListsTypeOK, NEW then \in {None, "profile"}, GetFriends(then), ListFriends' = ListFriends
  PROVE  gets' \in Seq([seen : SUBSET User, then : {None, "profile"}]) /\ Latest'
<1> DEFINE get == [seen |-> ListFriends, then |-> then]
<1>1. get \in [seen : SUBSET User, then : {None, "profile"}] /\ get.seen = ListFriends
  BY DEF ListFriends
<1>2. gets' = Append(gets, get)
  BY DEF GetFriends
<1> HIDE DEF get
<1>3. Len(gets') = Len(gets) + 1 /\ gets'[Len(gets) + 1] = get /\ gets' # << >>
  BY <1>1, <1>2 DEF ListsTypeOK
<1> QED
  BY <1>1, <1>2, <1>3 DEF ListsTypeOK, Latest

\* A step that leaves the table, the calls and the events alone keeps what is right,
\* also when it reads the friends again.
LEMMA ListsKept ==
  ASSUME ListsInv, UNCHANGED <<row, handlers, friends, events, stale>>,
         UNCHANGED gets \/ (\E then \in {None, "profile"} : GetFriends(then)),
         page' = "contacts" => page = "contacts"
  PROVE  ListsInv'
<1>1. ListFriends' = ListFriends
  BY DEF ListFriends
<1>2. CallsOfMe' /\ (Announced => Announced')
  BY DEF ListsInv, CallsOfMe, Announced, Both
<1>3. CASE UNCHANGED gets
  BY <1>1, <1>2, <1>3 DEF ListsInv, ListsTypeOK, ListsRight, Latest
<1>4. ASSUME NEW then \in {None, "profile"}, GetFriends(then) PROVE ListsInv'
  BY <1>1, <1>2, <1>4, ReadAgain DEF ListsInv, ListsTypeOK, ListsRight
<1> QED
  BY <1>3, <1>4

\* An element that is taken out of a sequence.
LEMMA TakenOut ==
  ASSUME NEW T, NEW s \in Seq(T), NEW i \in 1..Len(s)
  PROVE  /\ RemoveAt(s, i) \in Seq(T)
         /\ Len(RemoveAt(s, i)) = Len(s) - 1
         /\ \A j \in 1..Len(s) - 1 : RemoveAt(s, i)[j] = IF j < i THEN s[j] ELSE s[j + 1]
<1> DEFINE before == SubSeq(s, 1, i - 1)
           after == SubSeq(s, i + 1, Len(s))
<1>1. before \in Seq(T) /\ Len(before) = i - 1 /\ \A j \in 1..i - 1 : before[j] = s[j]
  OBVIOUS
<1>2. after \in Seq(T) /\ Len(after) = Len(s) - i /\ \A j \in 1..Len(s) - i : after[j] = s[i + j]
  OBVIOUS
<1>3. RemoveAt(s, i) = before \o after
  BY DEF RemoveAt
<1> HIDE DEF before, after
<1>4. RemoveAt(s, i) \in Seq(T) /\ Len(RemoveAt(s, i)) = Len(s) - 1
  BY <1>1, <1>2, <1>3
<1>5. ASSUME NEW j \in 1..Len(s) - 1 PROVE RemoveAt(s, i)[j] = IF j < i THEN s[j] ELSE s[j + 1]
  <2>1. CASE j < i
    BY <1>1, <1>2, <1>3, <2>1
  <2>2. CASE ~(j < i)
    <3>1. j - (i - 1) \in 1..Len(s) - i /\ i + (j - (i - 1)) = j + 1 /\ j \in i..Len(s) - 1
      BY <2>2
    <3>2. (before \o after)[j] = after[j - Len(before)]
      BY <1>1, <1>2, <2>2, <3>1, ConcatProperties
    <3>3. after[j - (i - 1)] = s[i + (j - (i - 1))]
      BY <1>2, <3>1
    <3> QED
      BY <1>1, <1>3, <2>2, <3>1, <3>2, <3>3
  <2> QED
    BY <2>1, <2>2
<1> QED
  BY <1>4, <1>5

\* What is announced by something else than the call that moves stays announced.
LEMMA StillAnnounced ==
  ASSUME ListsTypeOK, NEW h \in handlers, \A k \in handlers : k # h => k \in handlers', Announced, ~Promise(h),
         events' = events \/ \E e \in {"friend_request", "friend_accepted"} : events' = Append(events, e)
  PROVE  Announced'
<1>1. CASE \E i \in DOMAIN events : events[i] = "friend_accepted"
  <2>1. PICK i \in 1..Len(events) : events[i] = "friend_accepted"
    BY <1>1 DEF ListsTypeOK
  <2>2. events \in Seq({"friend_request", "friend_accepted"})
    BY DEF ListsTypeOK
  <2>3. ASSUME NEW e \in {"friend_request", "friend_accepted"}, events' = Append(events, e)
        PROVE  i \in DOMAIN events' /\ events'[i] = "friend_accepted"
    BY <2>1, <2>2, <2>3
  <2>4. i \in DOMAIN events' /\ events'[i] = "friend_accepted"
    BY <2>1, <2>2, <2>3
  <2> QED
    BY <2>4 DEF Announced
<1>2. CASE \E k \in handlers : Promise(k)
  <2>1. PICK k \in handlers : Promise(k) /\ k # h
    BY <1>2
  <2> QED
    BY <2>1 DEF Announced, Promise
<1> QED
  BY <1>1, <1>2 DEF Announced

\* The calls stay calls of Me when one of them moves, and only an acceptance goes on
\* to the second statement.
LEMMA CallsStayOfMe ==
  ASSUME FriendsTypeOK, CallsOfMe, NEW h \in handlers, NEW place \in Running \cup Result, Moved(h, place),
         place \in {"confirm", "reverse"} => h.at = "confirm"
  PROVE  CallsOfMe'
<1>1. \A k \in handlers' : k \in handlers \/ (k.at = place /\ k.op = h.op /\ k.by = h.by /\ k.to = h.to)
  BY Moves
<1> QED
  BY <1>1 DEF CallsOfMe, Both

\* A call that moves without an acceptance, and promises nothing, keeps what is right.
LEMMA MovesQuietly ==
  ASSUME FriendsTypeOK, ListsInv, NEW h \in handlers, NEW place \in (Running \cup Result) \ {"confirm", "reverse"},
         Moved(h, place), ~Promise(h),
         ListFriends' = ListFriends, UNCHANGED <<page, friends, gets, stale>>,
         events' = events \/ \E e \in {"friend_request", "friend_accepted"} : events' = Append(events, e)
  PROVE  ListsInv'
<1>1. ListsTypeOK'
  <2>1. events \in Seq({"friend_request", "friend_accepted"}) /\ gets' = gets /\ stale' = stale
    BY DEF ListsInv, ListsTypeOK
  <2>2. events' \in Seq({"friend_request", "friend_accepted"})
    BY <2>1
  <2> QED
    BY <2>1, <2>2 DEF ListsInv, ListsTypeOK
<1>2. CallsOfMe'
  BY CallsStayOfMe DEF ListsInv
<1>3. Announced => Announced'
  BY Moves, StillAnnounced DEF ListsInv
<1> QED
  BY <1>1, <1>2, <1>3 DEF ListsInv, ListsRight, Latest

\* The table lists the same friends when no row of Me becomes accepted.
LEMMA SameFriends ==
  ASSUME \A p \in Pair : row'[p] = "accepted" <=> row[p] = "accepted"
  PROVE  ListFriends' = ListFriends
BY MeAssumption DEF ListFriends, Pair

\* The server serves a call.
LEMMA ServeKeepsLists ==
  ASSUME FriendsInv, ListsInv, NEW h \in handlers, Serve(h)
  PROVE  ListsInv'
<1> USE DEF Moved, Quietly
<1>0. /\ UNCHANGED <<page, friends, gets>> /\ FriendsTypeOK /\ ListsTypeOK /\ CallsOfMe
      /\ h \in Handler /\ h.by # h.to /\ Own(h) \in Pair /\ Other(h) \in Pair /\ Me \in Both(h)
  BY Pairs DEF Serve, ListsInv, FriendsInv, FriendsTypeOK, CallsOfMe
<1>1. CASE Look(h) /\ Quietly
  <2>1. PICK place \in {"refused", "write"} : Moved(h, place)
    BY <1>1 DEF Look, Ends, At
  <2>2. ~Promise(h) /\ ListFriends' = ListFriends
    BY <1>1 DEF Look, Promise, ListFriends
  <2> QED
    BY <1>0, <1>1, <2>1, <2>2, MovesQuietly DEF Running, Result
<1>2. CASE Write(h) /\ Quietly
  <2>1. Moved(h, "check")
    BY <1>2 DEF Write, At
  <2>2. \A p \in Pair : row'[p] = "accepted" <=> row[p] = "accepted"
    BY <1>0, <1>2 DEF Write, FriendsTypeOK
  <2>3. ~Promise(h) /\ ListFriends' = ListFriends
    BY <1>2, <2>2, SameFriends DEF Write, Promise
  <2> QED
    BY <1>0, <1>2, <2>1, <2>3, MovesQuietly DEF Running
<1>3. CASE /\ Check(h) /\ UNCHANGED stale
           /\ (IF Requested(h) THEN Push(h, "friend_request") ELSE UNCHANGED events)
  <2>1. PICK place \in {"ok", "refused"} : Moved(h, place)
    BY <1>3 DEF Check, Ends, At
  <2>2. ~Promise(h) /\ ListFriends' = ListFriends
    BY <1>3 DEF Check, Promise, ListFriends
  <2>3. events' = events \/ events' = Append(events, "friend_request")
    BY <1>3 DEF Push
  <2> QED
    BY <1>0, <1>3, <2>1, <2>2, <2>3, MovesQuietly DEF Result
<1>4. CASE Confirm(h) /\ Quietly
  <2>1. CASE row[Other(h)] = "pending"
    <3>1. Moved(h, "reverse") /\ "reverse" \in Running /\ h.at = "confirm"
      BY <1>4, <2>1 DEF Confirm, At, Running
    <3>2. [h EXCEPT !.at = "reverse"] \in handlers' /\ [h EXCEPT !.at = "reverse"].at = "reverse"
      BY <1>0, <1>4, <2>1 DEF Confirm, At, Handler
    <3>3. Announced'
      BY <3>2 DEF Announced, Promise
    <3>4. CallsOfMe'
      BY <1>0, <3>1, CallsStayOfMe
    <3> QED
      BY <1>0, <1>4, <3>3, <3>4 DEF ListsInv, ListsTypeOK, ListsRight
  <2>2. CASE row[Other(h)] # "pending"
    <3>1. Moved(h, "refused") /\ "refused" \in Result
      BY <1>4, <2>2 DEF Confirm, Ends, At, Result
    <3>2. ~Promise(h) /\ ListFriends' = ListFriends
      BY <1>4, <2>2 DEF Confirm, Promise, ListFriends
    <3> QED
      BY <1>0, <1>4, <3>1, <3>2, MovesQuietly
  <2> QED
    BY <2>1, <2>2
<1>5. CASE Return(h) /\ Push(h, "friend_accepted") /\ UNCHANGED stale
  <2>1. Moved(h, "ok") /\ "ok" \in Result
    BY <1>5 DEF Return, Ends, At, Result
  <2>2. CallsOfMe'
    BY <1>0, <2>1, CallsStayOfMe
  <2>3. ListsTypeOK'
    BY <1>0, <1>5 DEF Push, ListsTypeOK
  <2>4. Announced'
    <3>1. CASE h.by = Me
      <4>1. h.op = "accept"
        BY <1>0, <1>5 DEF Return, CallsOfMe
      <4>2. [h EXCEPT !.at = "ok"] \in handlers' /\ Promise([h EXCEPT !.at = "ok"])
        BY <1>0, <1>5, <3>1, <4>1 DEF Return, Ends, At, Handler, Promise
      <4> QED
        BY <4>2 DEF Announced, Promise
    <3>2. CASE h.by # Me
      <4>1. events' = Append(events, "friend_accepted")
        BY <1>0, <1>5, <3>2 DEF Push, Both
      <4>2. Len(events) + 1 \in DOMAIN events' /\ events'[Len(events) + 1] = "friend_accepted"
        BY <1>0, <4>1 DEF ListsTypeOK
      <4> QED
        BY <4>2 DEF Announced
    <3> QED
      BY <3>1, <3>2
  <2> QED
    BY <2>2, <2>3, <2>4 DEF ListsInv, ListsRight
<1>6. CASE Repair(h) /\ stale' = (stale \/ h.by # Me) /\ UNCHANGED events
  <2>1. Moved(h, "already") /\ "already" \in Result
    BY <1>6 DEF Repair, Ends, At, Result
  <2>2. CallsOfMe'
    BY <1>0, <2>1, CallsStayOfMe
  <2>3. ListsTypeOK'
    BY <1>0, <1>6 DEF ListsTypeOK
  <2>4. ~stale' => Announced'
    <3> SUFFICES ASSUME h.by = Me PROVE Announced'
      BY <1>6
    <3>1. [h EXCEPT !.at = "already"] \in handlers' /\ Promise([h EXCEPT !.at = "already"])
      BY <1>0, <1>6 DEF Repair, Ends, At, Handler, Promise
    <3> QED
      BY <3>1 DEF Announced, Promise
  <2> QED
    BY <2>2, <2>3, <2>4 DEF ListsInv, ListsRight
<1> QED
  BY <1>1, <1>2, <1>3, <1>4, <1>5, <1>6 DEF Serve

\* A list of friends arrives.
LEMMA ArrivalKeepsLists ==
  ASSUME ListsInv, NEW i \in DOMAIN gets, FriendsArrive(i)
  PROVE  ListsInv'
<1> DEFINE Gets == [seen : SUBSET User, then : {None, "profile"}]
<1>1. gets \in Seq(Gets) /\ i \in 1..Len(gets) /\ gets' = RemoveAt(gets, i)
  BY DEF ListsInv, ListsTypeOK, FriendsArrive
<1>2. /\ gets' \in Seq(Gets) /\ Len(gets') = Len(gets) - 1
      /\ \A j \in 1..Len(gets) - 1 : gets'[j] = IF j < i THEN gets[j] ELSE gets[j + 1]
  BY <1>1, TakenOut
<1> HIDE DEF Gets
<1>3. /\ ListFriends' = ListFriends /\ (Announced' <=> Announced) /\ CallsOfMe'
      /\ events' = events /\ stale' = (stale \/ i > 1)
  BY DEF FriendsArrive, friendVars, ListFriends, Announced, Promise, ListsInv, CallsOfMe, Both
<1>4. ListsTypeOK'
  BY <1>2, <1>3 DEF ListsInv, ListsTypeOK, Gets
<1>5. ASSUME page = "contacts", ~stale, i = 1, Latest PROVE Latest'
  <2>1. gets[Len(gets)].seen = ListFriends
    BY <1>1, <1>5 DEF Latest
  <2>2. CASE Len(gets) = 1
    <3>1. gets' = << >>
      BY <1>2, <2>2
    <3>2. friends' = ListFriends
      BY <1>5, <2>1, <2>2 DEF FriendsArrive
    <3> QED
      BY <1>3, <3>1, <3>2 DEF Latest
  <2>3. CASE Len(gets) # 1
    <3>1. gets' # << >> /\ gets'[Len(gets')] = gets[Len(gets)]
      BY <1>1, <1>2, <1>5, <2>3
    <3> QED
      BY <1>3, <2>1, <3>1 DEF Latest
  <2> QED
    BY <2>2, <2>3
<1>6. page' = "contacts" => page = "contacts"
  BY DEF FriendsArrive, Turn, Elsewhere
<1>7. ListsRight'
  <2> SUFFICES ASSUME page' = "contacts", ~stale', ~Announced' PROVE Latest'
    BY DEF ListsRight
  <2>1. page = "contacts" /\ ~stale /\ ~(i > 1) /\ ~Announced
    BY <1>3, <1>6
  <2>2. i = 1
    BY <1>1, <2>1
  <2> QED
    BY <1>5, <2>1, <2>2 DEF ListsInv, ListsRight
<1> QED
  BY <1>3, <1>4, <1>7 DEF ListsInv

\* An event of the server arrives.
LEMMA EventKeepsLists ==
  ASSUME ListsInv, FriendEvent
  PROVE  ListsInv'
<1>1. /\ UNCHANGED <<row, handlers, page, friends, stale>>
      /\ events # << >> /\ events' = Tail(events) /\ events \in Seq({"friend_request", "friend_accepted"})
  BY DEF FriendEvent, friendVars, ListsInv, ListsTypeOK
<1>2. ListFriends' = ListFriends /\ CallsOfMe'
  BY <1>1 DEF ListFriends, ListsInv, CallsOfMe, Both
<1>3. events' \in Seq({"friend_request", "friend_accepted"})
  BY <1>1
<1>4. CASE GetFriends(None) /\ page = "contacts"
  BY <1>1, <1>2, <1>3, <1>4, ReadAgain DEF ListsInv, ListsTypeOK, ListsRight
<1>5. CASE page # "contacts"
  BY <1>1, <1>2, <1>3, <1>5 DEF FriendEvent, ListsInv, ListsTypeOK, ListsRight
<1>6. CASE page = "contacts" /\ Head(events) # "friend_accepted"
  <2>1. UNCHANGED gets
    BY <1>6 DEF FriendEvent
  <2>2. ASSUME NEW i \in DOMAIN events, events[i] = "friend_accepted" PROVE Announced'
    <3>1. i # 1 /\ i \in 1..Len(events)
      BY <1>1, <1>6, <2>2
    <3>2. i - 1 \in DOMAIN events' /\ events'[i - 1] = "friend_accepted"
      BY <1>1, <2>2, <3>1
    <3> QED
      BY <3>2 DEF Announced
  <2>3. Announced => Announced'
    BY <1>1, <2>2 DEF Announced, Promise
  <2> QED
    BY <1>1, <1>2, <1>3, <2>1, <2>3 DEF ListsInv, ListsTypeOK, ListsRight, Latest
<1> QED
  BY <1>4, <1>5, <1>6 DEF FriendEvent

\* An answer arrives at the client of Me.
LEMMA AnswerKeepsLists ==
  ASSUME FriendsInv, ListsInv, NEW h \in handlers, CallAnswer(h)
  PROVE  ListsInv'
<1>1. /\ UNCHANGED <<row, page, friends, events, stale>> /\ h.at \in Result /\ handlers' = handlers \ {h}
      /\ FriendsTypeOK /\ ListsTypeOK /\ CallsOfMe
  BY DEF CallAnswer, Answered, ListsInv, FriendsInv
<1>2. ListFriends' = ListFriends /\ CallsOfMe'
  BY <1>1 DEF ListFriends, CallsOfMe, Both
<1>3. ASSUME NEW then \in {None, "profile"}, GetFriends(then) PROVE ListsInv'
  BY <1>1, <1>2, <1>3, ReadAgain DEF ListsInv, ListsTypeOK, ListsRight
<1>4. CASE UNCHANGED gets /\ ~Promise(h)
  <2>1. Announced => Announced'
    BY <1>1, <1>4, StillAnnounced
  <2> QED
    BY <1>1, <1>2, <1>4, <2>1 DEF ListsInv, ListsTypeOK, ListsRight, Latest
<1>5. CASE h.op = "accept" /\ h.at = "ok"
  BY <1>3, <1>5 DEF CallAnswer
<1>6. CASE h.at = "already"
  BY <1>3, <1>6 DEF CallAnswer
<1>7. CASE ~(h.op = "accept" /\ h.at = "ok") /\ h.at # "already"
  <2>1. ~Promise(h)
    BY <1>1, <1>7 DEF Promise, Result
  <2>2. UNCHANGED gets
    BY <1>7 DEF CallAnswer
  <2> QED
    BY <1>4, <2>1, <2>2
<1> QED
  BY <1>5, <1>6, <1>7

\* A call begins, to or of Me.
LEMMA CallKeepsLists ==
  ASSUME ListsInv, NEW op \in {"request", "accept"}, NEW by \in User, NEW to \in User, Me \in {by, to}, Call(op, by, to),
         UNCHANGED <<page, friends, gets, events, stale>>
  PROVE  ListsInv'
<1> DEFINE new == [op |-> op, by |-> by, to |-> to, at |-> IF op = "request" THEN "look" ELSE "confirm"]
<1>1. new.op = op /\ new.by = by /\ new.to = to /\ new.at = IF op = "request" THEN "look" ELSE "confirm"
  OBVIOUS
<1>2. handlers' = handlers \cup {new} /\ row' = row
  BY DEF Call
<1> HIDE DEF new
<1>3. CallsOfMe'
  BY <1>1, <1>2 DEF ListsInv, CallsOfMe, Both
<1>4. ListFriends' = ListFriends /\ (Announced => Announced')
  BY <1>2 DEF ListFriends, Announced, Promise
<1> QED
  BY <1>2, <1>3, <1>4 DEF ListsInv, ListsTypeOK, ListsRight, Latest

\* The lists of the contacts page stay right.
LEMMA ListsStep == FriendsInv /\ ListsInv /\ [SocialNext]_socialVars => ListsInv'
<1> SUFFICES ASSUME FriendsInv, ListsInv, [SocialNext]_socialVars PROVE ListsInv'
  OBVIOUS
<1> USE DEF friendVars
<1>0. FriendsTypeOK /\ ListsTypeOK /\ CallsOfMe
  BY DEF ListsInv, FriendsInv
<1>1. CASE GroupNext \/ ProfileNext \/ MomentsNext \/ TimelineNext
  BY <1>1, OtherPagesRead, ListsKept
<1>2. CASE UNCHANGED socialVars
  BY <1>2, ListsKept DEF socialVars, contactVars
<1>3. ASSUME NEW state, LoadContacts(state), UNCHANGED <<friendVars, friends, events>> PROVE ListsInv'
  <2>1. GetFriends(None) /\ stale' = FALSE
    BY <1>3 DEF LoadContacts
  <2>2. ListFriends' = ListFriends /\ CallsOfMe'
    BY <1>0, <1>3 DEF ListFriends, CallsOfMe, Both
  <2> QED
    BY <1>0, <1>3, <2>1, <2>2, ReadAgain DEF ListsInv, ListsTypeOK, ListsRight
<1>4. CASE OpenContacts \/ Focus
  BY <1>3, <1>4 DEF OpenContacts, Focus
<1>5. CASE \/ LeaveContacts \/ OpenChat \/ Back
           \/ \E v \in contacts.asked : RequestsArrive(v)
           \/ \E u \in User : ToggleFriendTag(u)
           \/ \E t \in Tag : (\E v \in {"assign", "filter"} : ShowTag(v, t)) \/ CreateTag(t) \/ DeleteTag(t)
           \/ \E g \in Group : \E who \in SUBSET User : CreateGroup(g, who)
           \/ \E c \in calls : TagAnswer(c) \/ GroupAnswer(c) \/ CallFails(c)
  <2>1. UNCHANGED <<row, handlers, friends, events, stale, gets>> /\ page' \in {page, Elsewhere}
    BY <1>5 DEF LeaveContacts, OpenChat, Back, RequestsArrive, ToggleFriendTag, Begin, ShowTag, CreateTag, DeleteTag,
                CreateGroup, TagAnswer, GroupAnswer, CallFails, Turn
  <2> QED
    BY <2>1, ListsKept DEF Elsewhere
<1>6. CASE OthersCall
  <2>1. PICK op \in {"request", "accept"}, u \in User \ {Me} : Call(op, u, Me)
    BY <1>6 DEF OthersCall
  <2> QED
    BY <1>6, <2>1, CallKeepsLists, MeAssumption DEF OthersCall
<1>7. CASE \E u \in User : SendFriendRequest(u) \/ AcceptRequest(u)
  <2>1. PICK u \in User, op \in {"request", "accept"} : Call(op, Me, u)
    BY <1>7 DEF SendFriendRequest, AcceptRequest
  <2> QED
    BY <1>7, <2>1, CallKeepsLists, MeAssumption DEF SendFriendRequest, AcceptRequest
<1>8. ASSUME NEW h \in handlers, Fault(h) PROVE ListsInv'
  <2>1. Abort(h) /\ UNCHANGED <<row, page, friends, gets, events>> /\ stale' = (stale \/ h.at = "reverse")
    BY <1>8 DEF Fault, Abort
  <2>2. Moved(h, "refused") /\ "refused" \in Result /\ ListFriends' = ListFriends
    BY <2>1 DEF Abort, Ends, At, Moved, Result, ListFriends
  <2>3. CallsOfMe'
    BY <1>0, <2>2, CallsStayOfMe
  <2>4. CASE h.at = "reverse"
    BY <1>0, <2>1, <2>3, <2>4 DEF ListsInv, ListsTypeOK, ListsRight
  <2>5. CASE h.at # "reverse"
    <3>1. ~Promise(h) /\ stale' = stale
      BY <1>0, <2>1, <2>5 DEF Abort, Promise, Running, ListsTypeOK
    <3> QED
      BY <1>0, <2>1, <2>2, <3>1, MovesQuietly
  <2> QED
    BY <2>4, <2>5
<1>9. ASSUME NEW h \in handlers, AnswerLost(h) PROVE ListsInv'
  <2>1. UNCHANGED <<gets, events>> /\ stale' = TRUE /\ handlers' = handlers \ {h}
    BY <1>9 DEF AnswerLost, Answered
  <2> QED
    BY <1>0, <2>1 DEF ListsInv, ListsTypeOK, ListsRight, CallsOfMe, Both
<1>10. CASE EventsLost
  <2>1. /\ UNCHANGED <<handlers, gets>> /\ stale' = TRUE /\ events' = << >>
    BY <1>10 DEF EventsLost
  <2> QED
    BY <1>0, <2>1 DEF ListsInv, ListsTypeOK, ListsRight, CallsOfMe, Both
<1>11. ASSUME NEW i \in DOMAIN gets, FriendsFail(i) PROVE ListsInv'
  <2>1. UNCHANGED <<handlers, events>> /\ stale' = TRUE /\ gets' = RemoveAt(gets, i)
    BY <1>11 DEF FriendsFail
  <2>2. gets' \in Seq([seen : SUBSET User, then : {None, "profile"}])
    BY <1>0, <2>1, TakenOut DEF ListsTypeOK
  <2> QED
    BY <1>0, <2>1, <2>2 DEF ListsInv, ListsTypeOK, ListsRight, CallsOfMe, Both
<1> QED
  BY <1>1, <1>2, <1>4, <1>5, <1>6, <1>7, <1>8, <1>9, <1>10, <1>11,
     ServeKeepsLists, ArrivalKeepsLists, EventKeepsLists, AnswerKeepsLists DEF SocialNext, ContactsNext

-----------------------------------------------------------------------------
(* Both feeds.                                                             *)

\* Each page turns the address bar to itself, or away.
LEMMA Turns ==
  /\ ContactsNext => page' \in {page, Elsewhere, "contacts"}
  /\ GroupNext => page' \in {page, Elsewhere, "group"}
  /\ ProfileNext => page' \in {page, Elsewhere, "user"}
  /\ MomentsNext => page' \in {page, Elsewhere, "moments"}
  /\ TimelineNext => page' \in {page, Elsewhere, "timeline"}
<1>1. ContactsNext => page' \in {page, Elsewhere, "contacts"}
  BY DEF ContactsNext, OpenContacts, LeaveContacts, OpenChat, Focus, FriendEvent, EventsLost, FriendsArrive, FriendsFail,
     RequestsArrive, OthersCall, Back, SendFriendRequest, AcceptRequest, ToggleFriendTag, Begin, Serve, Fault, CallAnswer,
     AnswerLost, ShowTag, CreateTag, DeleteTag, CreateGroup, TagAnswer, GroupAnswer, CallFails, Turn
<1>2. GroupNext => page' \in {page, Elsewhere, "group"}
  BY DEF GroupNext, Local, Ask, OpenGroup, OthersChange, FocusGroup, LeaveGroup, TrustChanged, CancelInvite,
     InviteFriends, ToggleFriend, Edit, SaveEdit, HandleAvatarChange, ToggleMute, ToggleCode, Disband, LeaveForGood,
     DetailAnswer, TrustAnswer, DetailFails, Checked, Served, Gone, RequestFails, Turn
<1>3. ProfileNext => page' \in {page, Elsewhere, "user"}
  BY DEF ProfileNext, OpenProfile, LeaveProfile, PrivacyArrives, Errand, HandleTogglePrivacy, SaveRemark,
     HandleReport, HandleBlock, HandleUnblock, ErrandDone, ErrandFails
<1>4. MomentsNext => page' \in {page, Elsewhere, "moments"}
  BY DEF MomentsNext, InMoments, OpenMoments, LeaveMoments, ComposeMoment, PublishMoment, OthersMoments,
     MomentsArrive, MomentsLost, ToggleLike, SubmitComment, DeleteMoment, ReportMoment, AskMoment, MomentAnswer,
     MomentFails, MomentPublished, MomentNotPublished
<1>5. TimelineNext => page' \in {page, Elsewhere, "timeline"}
  BY DEF TimelineNext, InTimeline, OpenTimeline, LeaveTimeline, BackToPosts, OthersPost, OpenPost, Arrives,
     LoadFails, LikePost, CommentPost, DeletePost, ReportPost, Deed, DeedDone, DeedFails, ComposePost, PublishPost,
     PostPublished, PostNotPublished
<1> QED
  BY <1>1, <1>2, <1>3, <1>4, <1>5

\* The rows of the two tables, and the lists a client reads of them.
PostRow == [by : User \cup {None}, liked : BOOLEAN, comments : {0, 1}]
Table(ids) == [ids -> {None} \cup PostRow]
Lists(ids) == UNION {[S -> PostRow] : S \in SUBSET ids}
Kinds == {"like", "unlike", "comment", "delete", "report"}

\* The server acts on the row it is asked to, which keeps its number.
LEMMA ActsOnRow ==
  ASSUME NEW ids, NEW table \in Table(ids), NEW a, a.on \in ids, a.kind \in Kinds
  PROVE  /\ Acted(table, a) \in Table(ids)
         /\ \A p \in ids : Acted(table, a)[p] = None <=> table[p] = None
         /\ \A p \in ids : p # a.on \/ table[p] = Tombstone \/ a.kind = "report" => Acted(table, a)[p] = table[p]
         /\ a.kind = "report" => Acted(table, a) = table
<1>1. Tombstone \in PostRow
  BY DEF Tombstone, New, PostRow
<1>2. CASE ~There(table[a.on])
  BY <1>2 DEF Acted
<1>3. CASE There(table[a.on])
  <2>1. table[a.on] \in PostRow /\ table[a.on] # Tombstone
    BY <1>3 DEF There, Table
  <2>2. \A r \in PostRow : r # None
    BY NoPostAssumption DEF PostRow
  <2> SUFFICES ASSUME a.kind # "report",
                      \E r \in PostRow : Acted(table, a) = [table EXCEPT ![a.on] = r]
               PROVE  /\ Acted(table, a) \in Table(ids)
                      /\ \A p \in ids : Acted(table, a)[p] = None <=> table[p] = None
                      /\ \A p \in ids : p # a.on \/ table[p] = Tombstone => Acted(table, a)[p] = table[p]
    <3>1. CASE a.kind = "like"
      <4>1. Acted(table, a) = [table EXCEPT ![a.on] = [table[a.on] EXCEPT !.liked = TRUE]]
        BY <1>3, <3>1 DEF Acted
      <4> QED
        BY <2>1, <3>1, <4>1 DEF PostRow
    <3>2. CASE a.kind = "unlike"
      <4>1. Acted(table, a) = [table EXCEPT ![a.on] = [table[a.on] EXCEPT !.liked = FALSE]]
        BY <1>3, <3>2 DEF Acted
      <4> QED
        BY <2>1, <3>2, <4>1 DEF PostRow
    <3>3. CASE a.kind = "comment"
      <4>1. Acted(table, a) = [table EXCEPT ![a.on] = [table[a.on] EXCEPT !.comments = 1]]
        BY <1>3, <3>3 DEF Acted
      <4> QED
        BY <2>1, <3>3, <4>1 DEF PostRow
    <3>4. CASE a.kind = "delete"
      <4>1. Acted(table, a) = [table EXCEPT ![a.on] = Tombstone]
        BY <1>3, <3>4 DEF Acted
      <4> QED
        BY <1>1, <3>4, <4>1
    <3>5. CASE a.kind = "report"
      BY <1>3, <3>5 DEF Acted
    <3> QED
      BY <3>1, <3>2, <3>3, <3>4, <3>5 DEF Kinds
  <2>3. PICK r \in PostRow : Acted(table, a) = [table EXCEPT ![a.on] = r]
    OBVIOUS
  <2> QED
    BY <2>1, <2>2, <2>3 DEF Table
<1> QED
  BY <1>2, <1>3

\* A new post gets a number that was free, and the rows that are there stay.
LEMMA AddedRow ==
  ASSUME NEW ids \in SUBSET Nat, NEW table \in Table(ids), NEW u \in User, Free(table, ids) # {}
  PROVE  /\ Added(table, ids, u) \in Table(ids)
         /\ \A p \in ids : table[p] # None => Added(table, ids, u)[p] = table[p]
<1> DEFINE R == {pair \in Nat \X Nat : pair[1] < pair[2]}
<1>1. IsWellFoundedOn(R, Nat)
  BY NatLessThanWellFounded DEF OpToRel
<1>2. Free(table, ids) \subseteq Nat
  BY DEF Free
<1>3. PICK least \in Free(table, ids) : \A y \in Free(table, ids) : <<y, least>> \notin R
  BY <1>1, <1>2, WFMin
<1>4. ASSUME NEW y \in Free(table, ids) PROVE least =< y
  <2>1. y \in Nat /\ least \in Nat /\ <<y, least>> \notin R
    BY <1>2, <1>3
  <2>2. ~(y < least)
    BY <2>1
  <2> QED
    BY <2>1, <2>2
<1>5. Min(Free(table, ids)) \in Free(table, ids)
  BY <1>4 DEF Min
<1>6. New(u) \in PostRow
  BY DEF New, PostRow
<1> QED
  BY <1>5, <1>6 DEF Added, Free, Table

-----------------------------------------------------------------------------
\* Of the numbers I of what is under way, the greatest one has the value v in f; when
\* there is none, it is what is shown that is v.
ShownLast(I, f, shown, v) == /\ I = {} => shown = v
                             /\ \A i \in I : (\A j \in I : j <= i) => f[i] = v

\* What counts and has the greatest number is what will be shown.
LEMMA EndsLast ==
  ASSUME NEW n \in Nat, NEW J \in SUBSET (1..n), n \in J, NEW g, NEW shown, NEW v, g[n] = v
  PROVE  ShownLast(J, g, shown, v)
<1> SUFFICES ASSUME NEW i \in J, \A j \in J : j <= i PROVE g[i] = v
  BY DEF ShownLast
<1>1. i \in 1..n /\ n <= i
  OBVIOUS
<1>2. i = n
  BY <1>1
<1> QED
  BY <1>2

\* Something new under way is the greatest; what is not counted changes nothing.
LEMMA EndsAppended ==
  ASSUME NEW n \in Nat, NEW I \in SUBSET (1..n), NEW J, NEW f, NEW g, NEW shown, NEW v,
         \A i \in 1..n : g[i] = f[i],
         \/ J = I \cup {n + 1} /\ g[n + 1] = v
         \/ J = I /\ ShownLast(I, f, shown, v)
  PROVE  ShownLast(J, g, shown, v)
<1>1. CASE J = I \cup {n + 1} /\ g[n + 1] = v
  <2>1. n + 1 \in J /\ \A i \in 1..n : ~(n + 1 <= i)
    BY <1>1
  <2> SUFFICES ASSUME NEW i \in J, \A j \in J : j <= i PROVE g[i] = v
    BY <2>1 DEF ShownLast
  <2>2. i = n + 1
    BY <1>1, <2>1
  <2> QED
    BY <1>1, <2>2
<1>2. CASE J = I /\ ShownLast(I, f, shown, v)
  BY <1>2 DEF ShownLast
<1> QED
  BY <1>1, <1>2

\* Number k ends: it is shown if it counts and is the first of those that count.
LEMMA EndsTaken ==
  ASSUME NEW n \in Nat, NEW I \in SUBSET (1..n), NEW k \in 1..n, NEW J \in SUBSET (1..n - 1), NEW f, NEW g,
         NEW before, NEW after, NEW v,
         \A j \in 1..n - 1 : /\ j \in J <=> (IF j < k THEN j ELSE j + 1) \in I
                             /\ g[j] = f[IF j < k THEN j ELSE j + 1],
         IF k \in I THEN (\A j \in I : j >= k) /\ (f[k] = v => after = v) ELSE after = before,
         ShownLast(I, f, before, v)
  PROVE  ShownLast(J, g, after, v)
<1> DEFINE old(j) == IF j < k THEN j ELSE j + 1
           now(i) == IF i < k THEN i ELSE i - 1
<1>1. \A i \in I : i # k => now(i) \in J /\ old(now(i)) = i
  <2> SUFFICES ASSUME NEW i \in I, i # k PROVE now(i) \in J /\ old(now(i)) = i
    OBVIOUS
  <2>1. now(i) \in 1..n - 1 /\ old(now(i)) = i
    OBVIOUS
  <2> QED
    BY <2>1
<1>2. \A j \in J : old(j) \in I /\ old(j) # k /\ g[j] = f[old(j)] /\ j \in 1..n - 1
  OBVIOUS
<1>3. ASSUME J = {} PROVE after = v
  <2>1. I \subseteq {k}
    BY <1>1, <1>3
  <2>2. CASE k \in I
    BY <2>1, <2>2 DEF ShownLast
  <2>3. CASE k \notin I
    BY <2>1, <2>3 DEF ShownLast
  <2> QED
    BY <2>2, <2>3
<1>4. ASSUME NEW j \in J, \A i \in J : i <= j PROVE g[j] = v
  <2>1. old(j) \in I /\ g[j] = f[old(j)]
    BY <1>2
  <2>2. ASSUME NEW i \in I PROVE i <= old(j)
    <3>1. CASE i = k
      <4>1. old(j) >= k
        BY <1>2, <3>1
      <4> QED
        BY <3>1, <4>1
    <3>2. CASE i # k
      <4>1. now(i) \in J /\ now(i) <= j /\ j \in 1..n - 1 /\ i \in 1..n
        BY <1>1, <1>2, <1>4, <3>2
      <4> QED
        BY <3>2, <4>1
    <3> QED
      BY <3>1, <3>2
  <2> QED
    BY <2>1, <2>2 DEF ShownLast
<1> QED
  BY <1>3, <1>4 DEF ShownLast

-----------------------------------------------------------------------------
(* The moments.                                                            *)

MomentsList == [seen : Lists(MomentId), here : BOOLEAN]
MomentsTypeOK == /\ moments \in Table(MomentId)
                 /\ fetches \in Seq(MomentsList)
                 /\ asks \subseteq [kind : Kinds, on : MomentId, here : BOOLEAN]
                 /\ feed \in Lists(MomentId) /\ kept \in Lists(MomentId)
                 /\ behind \in BOOLEAN

\* The lists under way that the page will show, and what each holds.
Waiting == {i \in DOMAIN fetches : fetches[i].here}
Seen == [i \in DOMAIN fetches |-> fetches[i].seen]
\* The list that the page will show last is that of the server.
MomentsRight == page = "moments" /\ ~behind => ShownLast(Waiting, Seen, feed, ListMoments)
MomentsInv == MomentsTypeOK /\ MomentsRight

LEMMA ListedMoments == MomentsTypeOK => ListMoments \in Lists(MomentId) /\ Nothing \in Lists(MomentId)
<1> SUFFICES ASSUME MomentsTypeOK PROVE ListMoments \in Lists(MomentId) /\ Nothing \in Lists(MomentId)
  OBVIOUS
<1> DEFINE S == {k \in MomentId : There(moments[k]) /\ moments[k].by \in Posters}
<1>1. \A m \in S : moments[m] \in PostRow
  BY DEF MomentsTypeOK, Table, There
<1>2. ListMoments \in [S -> PostRow]
  BY <1>1 DEF ListMoments
<1>3. Nothing \in [{} -> PostRow]
  BY DEF Nothing
<1> QED
  BY <1>2, <1>3 DEF Lists

\* A list is asked for: the page will show it, or what was right before stays so.
LEMMA Fetched ==
  ASSUME MomentsTypeOK, NEW here \in BOOLEAN, Fetch(here), NEW shown,
         here \/ (ListMoments' = ListMoments /\ ShownLast(Waiting, Seen, shown, ListMoments))
  PROVE  ShownLast(Waiting', Seen', shown, ListMoments')
<1> DEFINE n == Len(fetches)
<1>1. fetches \in Seq(MomentsList)
  BY DEF MomentsTypeOK
<1>9. n \in Nat
  BY <1>1
<1>2. fetches' = Append(fetches, [seen |-> ListMoments', here |-> here])
  BY DEF Fetch
<1>3. /\ DOMAIN fetches = 1..n /\ DOMAIN fetches' = 1..n + 1
      /\ \A i \in 1..n : fetches'[i] = fetches[i]
      /\ fetches'[n + 1] = [seen |-> ListMoments', here |-> here]
  BY <1>1, <1>2
<1> HIDE DEF n
<1>4. \A i \in 1..n : Seen'[i] = Seen[i]
  BY <1>9, <1>3 DEF Seen
<1>5. Seen'[n + 1] = ListMoments'
  BY <1>9, <1>3 DEF Seen
<1>6. Waiting \in SUBSET (1..n) /\ Waiting' = IF here THEN Waiting \cup {n + 1} ELSE Waiting
  BY <1>9, <1>3 DEF Waiting
<1>7. CASE here
  <2>1. \/ Waiting' = Waiting \cup {n + 1} /\ Seen'[n + 1] = ListMoments'
        \/ Waiting' = Waiting /\ ShownLast(Waiting, Seen, shown, ListMoments')
    BY <1>5, <1>6, <1>7
  <2> QED
    BY <1>9, <1>4, <1>6, <2>1, EndsAppended
<1>8. CASE ~here
  <2>1. Waiting' = Waiting /\ ListMoments' = ListMoments /\ ShownLast(Waiting, Seen, shown, ListMoments')
    BY <1>6, <1>8
  <2>2. \/ Waiting' = Waiting \cup {n + 1} /\ Seen'[n + 1] = ListMoments'
        \/ Waiting' = Waiting /\ ShownLast(Waiting, Seen, shown, ListMoments')
    BY <2>1
  <2> QED
    BY <1>9, <1>4, <1>6, <2>2, EndsAppended
<1> QED
  BY <1>7, <1>8

LEMMA FetchedType ==
  ASSUME MomentsTypeOK, moments' \in Table(MomentId), NEW here \in BOOLEAN, Fetch(here)
  PROVE  fetches' \in Seq(MomentsList)
<1>1. ListMoments' \in Lists(MomentId)
  <2> DEFINE S == {k \in MomentId : There(moments'[k]) /\ moments'[k].by \in Posters'}
  <2>1. \A m \in S : moments'[m] \in PostRow
    BY DEF Table, There
  <2>2. ListMoments' \in [S -> PostRow]
    BY <2>1 DEF ListMoments
  <2> QED
    BY <2>2 DEF Lists
<1>2. [seen |-> ListMoments', here |-> here] \in MomentsList
  BY <1>1 DEF MomentsList
<1>3. fetches' = Append(fetches, [seen |-> ListMoments', here |-> here])
  BY DEF Fetch
<1> QED
  BY <1>2, <1>3 DEF MomentsTypeOK

\* A list is answered: the page shows it if it asked for it.
LEMMA ArrivalKeepsMoments ==
  ASSUME MomentsInv, NEW i \in DOMAIN fetches, MomentsArrive(i), Posters' = Posters
  PROVE  MomentsInv'
<1> DEFINE n == Len(fetches)
<1>1. fetches \in Seq(MomentsList) /\ n \in Nat /\ i \in 1..n /\ fetches' = RemoveAt(fetches, i) /\ fetches[i] \in MomentsList
  BY DEF MomentsInv, MomentsTypeOK, MomentsArrive
<1>2. /\ fetches' \in Seq(MomentsList) /\ Len(fetches') = n - 1
      /\ \A j \in 1..n - 1 : fetches'[j] = IF j < i THEN fetches[j] ELSE fetches[j + 1]
  BY <1>1, TakenOut
<1>3. /\ UNCHANGED <<moments, asks, page>> /\ ListMoments' = ListMoments
      /\ behind' = (behind \/ (fetches[i].here /\ \E j \in 1..i - 1 : fetches[j].here))
  BY DEF MomentsArrive, InMoments, ListMoments
<1>4. PICK v \in {fetches[i].seen, ListMoments} : kept' = v /\ feed' = IF fetches[i].here THEN v ELSE feed
  BY DEF MomentsArrive
<1>5. DOMAIN fetches = 1..n /\ DOMAIN fetches' = 1..n - 1
  BY <1>1, <1>2
<1> HIDE DEF n
<1>6. MomentsTypeOK'
  BY <1>1, <1>2, <1>3, <1>4, ListedMoments DEF MomentsInv, MomentsTypeOK, MomentsList
<1>7. ASSUME page = "moments", ~behind' PROVE ShownLast(Waiting', Seen', feed', ListMoments')
  <2>1. ShownLast(Waiting, Seen, feed, ListMoments)
    BY <1>3, <1>7 DEF MomentsInv, MomentsRight
  <2>2. Waiting \in SUBSET (1..n) /\ Waiting' \in SUBSET (1..n - 1)
    BY <1>5 DEF Waiting
  <2>3. \A j \in 1..n - 1 : /\ j \in Waiting' <=> (IF j < i THEN j ELSE j + 1) \in Waiting
                            /\ Seen'[j] = Seen[IF j < i THEN j ELSE j + 1]
    <3> SUFFICES ASSUME NEW j \in 1..n - 1
                 PROVE  /\ j \in Waiting' <=> (IF j < i THEN j ELSE j + 1) \in Waiting
                        /\ Seen'[j] = Seen[IF j < i THEN j ELSE j + 1]
      OBVIOUS
    <3>1. /\ (IF j < i THEN j ELSE j + 1) \in DOMAIN fetches /\ j \in DOMAIN fetches'
          /\ fetches'[j] = fetches[IF j < i THEN j ELSE j + 1]
      BY <1>1, <1>2, <1>5
    <3> QED
      BY <3>1 DEF Waiting, Seen
  <2>4. IF i \in Waiting THEN (\A j \in Waiting : j >= i) /\ (Seen[i] = ListMoments => feed' = ListMoments)
                         ELSE feed' = feed
    <3>1. i \in Waiting <=> fetches[i].here
      BY DEF Waiting
    <3>2. CASE fetches[i].here
      <4>1. \A j \in 1..i - 1 : ~fetches[j].here
        BY <1>3, <1>7, <3>2
      <4>2. \A j \in Waiting : j \in 1..n /\ fetches[j].here
        BY <1>5 DEF Waiting
      <4>3. \A j \in Waiting : j >= i
        BY <1>1, <4>1, <4>2
      <4>4. Seen[i] = ListMoments => feed' = ListMoments
        BY <1>4, <3>2 DEF Seen
      <4> QED
        BY <3>1, <3>2, <4>3, <4>4
    <3>3. CASE ~fetches[i].here
      BY <1>4, <3>1, <3>3
    <3> QED
      BY <3>2, <3>3
  <2> QED
    BY <1>1, <1>3, <2>1, <2>2, <2>3, <2>4, EndsTaken
<1> QED
  BY <1>3, <1>6, <1>7 DEF MomentsInv, MomentsRight

\* A list is lost.
LEMMA LossKeepsMoments ==
  ASSUME MomentsInv, NEW i \in DOMAIN fetches, MomentsLost(i), Posters' = Posters
  PROVE  MomentsInv'
<1> DEFINE n == Len(fetches)
<1>1. fetches \in Seq(MomentsList) /\ n \in Nat /\ i \in 1..n /\ fetches' = RemoveAt(fetches, i) /\ fetches[i] \in MomentsList
  BY DEF MomentsInv, MomentsTypeOK, MomentsLost
<1>2. /\ fetches' \in Seq(MomentsList) /\ Len(fetches') = n - 1
      /\ \A j \in 1..n - 1 : fetches'[j] = IF j < i THEN fetches[j] ELSE fetches[j + 1]
  BY <1>1, TakenOut
<1>3. /\ UNCHANGED <<moments, asks, page, feed, kept>> /\ ListMoments' = ListMoments
      /\ behind' = (behind \/ fetches[i].here)
  BY DEF MomentsLost, InMoments, ListMoments
<1>4. DOMAIN fetches = 1..n /\ DOMAIN fetches' = 1..n - 1
  BY <1>1, <1>2
<1> HIDE DEF n
<1>5. MomentsTypeOK'
  BY <1>1, <1>2, <1>3 DEF MomentsInv, MomentsTypeOK, MomentsList
<1>6. ASSUME page = "moments", ~behind' PROVE ShownLast(Waiting', Seen', feed', ListMoments')
  <2>1. ShownLast(Waiting, Seen, feed, ListMoments)
    BY <1>3, <1>6 DEF MomentsInv, MomentsRight
  <2>2. Waiting \in SUBSET (1..n) /\ Waiting' \in SUBSET (1..n - 1)
    BY <1>4 DEF Waiting
  <2>3. \A j \in 1..n - 1 : /\ j \in Waiting' <=> (IF j < i THEN j ELSE j + 1) \in Waiting
                            /\ Seen'[j] = Seen[IF j < i THEN j ELSE j + 1]
    BY <1>1, <1>2, <1>4 DEF Waiting, Seen
  <2>4. IF i \in Waiting THEN (\A j \in Waiting : j >= i) /\ (Seen[i] = ListMoments => feed' = ListMoments)
                         ELSE feed' = feed
    BY <1>3, <1>6 DEF Waiting
  <2> QED
    BY <1>1, <1>3, <2>1, <2>2, <2>3, <2>4, EndsTaken
<1> QED
  BY <1>3, <1>5, <1>6 DEF MomentsInv, MomentsRight

\* What the other pages do to the moments.
LEMMA OthersKeepMoments ==
  ASSUME MomentsInv, (MomentsClose /\ page' # "moments") \/ (MomentsStay /\ page' = page)
  PROVE  MomentsInv'
<1>1. CASE MomentsClose /\ page' # "moments"
  <2>1. fetches' = [i \in 1..Len(fetches) |-> [fetches[i] EXCEPT !.here = FALSE]]
    BY <1>1 DEF MomentsClose, MomentsInv, MomentsTypeOK
  <2>2. ASSUME NEW i \in 1..Len(fetches) PROVE [fetches[i] EXCEPT !.here = FALSE] \in MomentsList
    <3>1. fetches[i] \in MomentsList
      BY DEF MomentsInv, MomentsTypeOK
    <3> QED
      BY <3>1 DEF MomentsList
  <2>3. fetches' \in Seq(MomentsList)
    BY <2>1, <2>2 DEF MomentsInv, MomentsTypeOK
  <2>4. asks' \subseteq [kind : Kinds, on : MomentId, here : BOOLEAN]
    BY <1>1 DEF MomentsClose, MomentsInv, MomentsTypeOK
  <2>5. MomentsTypeOK'
    BY <1>1, <2>3, <2>4, ListedMoments DEF MomentsClose, MomentsInv, MomentsTypeOK
  <2> QED
    BY <1>1, <2>5 DEF MomentsInv, MomentsRight
<1>2. CASE MomentsStay /\ page' = page
  <2>1. UNCHANGED <<moments, feed, kept, fetches, asks, page>> /\ behind' = (behind \/ Posters' # Posters)
    BY <1>2 DEF MomentsStay
  <2>2. MomentsTypeOK'
    BY <2>1 DEF MomentsInv, MomentsTypeOK
  <2>3. Posters' = Posters => ListMoments' = ListMoments
    BY <2>1 DEF ListMoments
  <2>4. Waiting' = Waiting /\ Seen' = Seen
    BY <2>1 DEF Waiting, Seen
  <2> QED
    BY <2>1, <2>2, <2>3, <2>4 DEF MomentsInv, MomentsRight
<1> QED
  BY <1>1, <1>2

\* The list is asked for after the table changed, or after an act that the page did not
\* wait for.
LEMMA FetchKeepsMoments ==
  ASSUME MomentsInv, moments' \in Table(MomentId), asks' \subseteq asks, NEW here \in BOOLEAN, Fetch(here),
         UNCHANGED <<page, feed, kept>>, behind' = (behind \/ ~here)
  PROVE  MomentsInv'
<1>1. MomentsTypeOK'
  BY FetchedType DEF MomentsInv, MomentsTypeOK
<1>2. ASSUME page = "moments", ~behind' PROVE ShownLast(Waiting', Seen', feed', ListMoments')
  <2>1. here
    BY <1>2
  <2> QED
    BY <2>1, Fetched DEF MomentsInv
<1> QED
  BY <1>1, <1>2 DEF MomentsInv, MomentsRight

\* A step that leaves the table and the lists under way alone, and shows nothing new.
LEMMA MomentsKept ==
  ASSUME MomentsInv, UNCHANGED <<moments, fetches, feed, kept, behind>>, Posters' = Posters,
         asks' \subseteq [kind : Kinds, on : MomentId, here : BOOLEAN],
         page' = "moments" => page = "moments"
  PROVE  MomentsInv'
<1>1. ListMoments' = ListMoments
  BY DEF ListMoments
<1>2. Waiting' = Waiting /\ Seen' = Seen
  BY DEF Waiting, Seen
<1> QED
  BY <1>1, <1>2 DEF MomentsInv, MomentsTypeOK, MomentsRight

\* The moments that the page shows stay right.
LEMMA MomentsStep == MomentsInv /\ [SocialNext]_socialVars => MomentsInv'
<1> SUFFICES ASSUME MomentsInv, [SocialNext]_socialVars PROVE MomentsInv'
  OBVIOUS
<1> USE MomentAssumption, MeAssumption
<1>0. MomentsTypeOK
  BY DEF MomentsInv
<1>1. CASE UNCHANGED socialVars
  BY <1>0, <1>1, MomentsKept DEF socialVars, momentVars, friendVars, MomentsTypeOK, Posters
<1>2. CASE (ContactsNext \/ GroupNext) /\ MomentsStay
  <2>1. page' # page => page' # "moments"
    BY <1>2, Turns DEF Elsewhere
  <2> QED
    BY <1>2, <2>1, OthersKeepMoments DEF MomentsStay
<1>3. CASE (ProfileNext \/ TimelineNext) /\ UNCHANGED momentVars
  <2>1. page' = "moments" => page = "moments"
    BY <1>3, Turns DEF Elsewhere
  <2>2. Posters' = Posters
    BY <1>3, OtherPagesRead DEF Posters
  <2> QED
    BY <1>0, <1>3, <2>1, <2>2, MomentsKept DEF momentVars, MomentsTypeOK
<1>4. CASE MomentsNext
  <2>0. Posters' = Posters
    BY <1>4, OtherPagesRead DEF Posters
  <2> USE DEF InMoments
  <2>1. CASE OpenMoments
    <3>1. Fetch(TRUE) /\ moments' = moments /\ feed' = kept /\ kept' = kept /\ asks' = asks /\ behind' = FALSE
      BY <2>1 DEF OpenMoments
    <3>2. moments' \in Table(MomentId) /\ TRUE \in BOOLEAN
      BY <1>0, <3>1 DEF MomentsTypeOK
    <3>3. MomentsTypeOK'
      BY <1>0, <3>1, <3>2, FetchedType DEF MomentsTypeOK
    <3>4. ShownLast(Waiting', Seen', kept, ListMoments')
      BY <1>0, <3>1, <3>2, Fetched
    <3> QED
      BY <3>1, <3>3, <3>4 DEF MomentsInv, MomentsRight
  <2>2. CASE LeaveMoments
    BY <2>2, OthersKeepMoments DEF LeaveMoments, Elsewhere
  <2>3. CASE OthersMoments
    <3>1. PICK m \in MomentId, u \in User \ {Me} :
             \/ Free(moments, MomentId) # {} /\ moments' = Added(moments, MomentId, u)
             \/ There(moments[m]) /\ moments[m].by = u /\ moments' = [moments EXCEPT ![m] = Tombstone]
      BY <2>3 DEF OthersMoments
    <3>2. moments' \in Table(MomentId)
      <4>1. Tombstone \in PostRow
        BY DEF Tombstone, New, PostRow
      <4>2. Free(moments, MomentId) # {} => Added(moments, MomentId, u) \in Table(MomentId)
        BY <1>0, AddedRow DEF MomentsTypeOK
      <4> QED
        BY <1>0, <3>1, <4>1, <4>2 DEF MomentsTypeOK, Table
    <3>3. behind' = TRUE /\ UNCHANGED <<feed, kept, fetches, asks>>
      BY <2>3 DEF OthersMoments
    <3> QED
      BY <1>0, <3>2, <3>3 DEF MomentsInv, MomentsTypeOK, MomentsRight
  <2>4. CASE ComposeMoment \/ PublishMoment
    <3>1. UNCHANGED momentVars /\ page' = page
      BY <2>4 DEF ComposeMoment, PublishMoment
    <3> QED
      BY <1>0, <2>0, <3>1, MomentsKept DEF momentVars, MomentsTypeOK
  <2>5. ASSUME NEW i \in DOMAIN fetches, MomentsArrive(i) \/ MomentsLost(i) PROVE MomentsInv'
    BY <2>0, <2>5, ArrivalKeepsMoments, LossKeepsMoments
  <2>6. ASSUME NEW m \in MomentId, NEW kind \in Kinds, AskMoment(kind, m) PROVE MomentsInv'
    <3>1. /\ UNCHANGED <<moments, feed, kept, fetches, behind, page>>
          /\ asks' = asks \cup {[kind |-> kind, on |-> m, here |-> TRUE]}
      BY <2>6 DEF AskMoment
    <3>2. [kind |-> kind, on |-> m, here |-> TRUE] \in [kind : Kinds, on : MomentId, here : BOOLEAN]
      OBVIOUS
    <3>3. asks' \subseteq [kind : Kinds, on : MomentId, here : BOOLEAN]
      BY <1>0, <3>1, <3>2 DEF MomentsTypeOK
    <3> QED
      BY <2>0, <3>1, <3>3, MomentsKept
  <2>7. ASSUME NEW a \in asks, MomentAnswer(a) PROVE MomentsInv'
    <3>1. a.on \in MomentId /\ a.kind \in Kinds /\ a.here \in BOOLEAN
      BY <1>0 DEF MomentsTypeOK
    <3>2. /\ moments' = Acted(moments, a) /\ asks' = asks \ {a} /\ UNCHANGED <<page, feed, kept>>
          /\ behind' = (behind \/ ~a.here)
      BY <2>7 DEF MomentAnswer
    <3>3. moments' \in Table(MomentId) /\ (a.kind = "report" => moments' = moments)
      BY <1>0, <3>1, <3>2, ActsOnRow DEF MomentsTypeOK
    <3>4. CASE Fetch(a.here)
      BY <3>1, <3>2, <3>3, <3>4, FetchKeepsMoments
    <3>5. CASE a.kind = "report" /\ UNCHANGED fetches
      <4>1. CASE a.here
        <5>1. UNCHANGED <<moments, fetches, feed, kept, behind>>
          BY <1>0, <3>2, <3>3, <3>5, <4>1 DEF MomentsTypeOK
        <5>2. asks' \subseteq [kind : Kinds, on : MomentId, here : BOOLEAN]
          BY <1>0, <3>2 DEF MomentsTypeOK
        <5> QED
          BY <2>0, <3>2, <5>1, <5>2, MomentsKept
      <4>2. CASE ~a.here
        BY <1>0, <3>2, <3>3, <3>5, <4>2 DEF MomentsInv, MomentsTypeOK, MomentsRight
      <4> QED
        BY <4>1, <4>2
    <3> QED
      BY <2>7, <3>4, <3>5 DEF MomentAnswer
  <2>8. ASSUME NEW a \in asks, MomentFails(a) PROVE MomentsInv'
    <3>1. a.on \in MomentId /\ a.kind \in Kinds /\ asks' = asks \ {a} /\ UNCHANGED <<page, feed, kept, fetches>>
      BY <1>0, <2>8 DEF MomentFails, MomentsTypeOK
    <3>2. asks' \subseteq [kind : Kinds, on : MomentId, here : BOOLEAN]
      BY <1>0, <3>1 DEF MomentsTypeOK
    <3>3. CASE UNCHANGED <<moments, behind>>
      BY <2>0, <3>1, <3>2, <3>3, MomentsKept
    <3>4. CASE moments' = Acted(moments, a) /\ behind' = TRUE
      <4>1. moments' \in Table(MomentId)
        BY <1>0, <3>1, <3>4, ActsOnRow DEF MomentsTypeOK
      <4> QED
        BY <1>0, <3>1, <3>2, <3>4, <4>1 DEF MomentsInv, MomentsTypeOK, MomentsRight
    <3> QED
      BY <2>8, <3>3, <3>4 DEF MomentFails
  <2>9. ASSUME NEW p \in sending, MomentPublished(p) PROVE MomentsInv'
    <3>1. /\ moments' = Added(moments, MomentId, Me) /\ Free(moments, MomentId) # {}
          /\ UNCHANGED <<page, feed, kept, asks>>
          /\ Fetch(p.at # "gone") /\ behind' = (behind \/ p.at = "gone")
      BY <2>9 DEF MomentPublished
    <3>2. moments' \in Table(MomentId)
      BY <1>0, <3>1, AddedRow DEF MomentsTypeOK
    <3>3. asks' \subseteq asks /\ (p.at # "gone") \in BOOLEAN /\ behind' = (behind \/ ~(p.at # "gone"))
      BY <3>1
    <3> QED
      BY <3>1, <3>2, <3>3, FetchKeepsMoments
  <2>10. ASSUME NEW p \in sending, MomentNotPublished(p) PROVE MomentsInv'
    <3>1. UNCHANGED momentVars /\ page' = page
      BY <2>10 DEF MomentNotPublished
    <3> QED
      BY <1>0, <2>0, <3>1, MomentsKept DEF momentVars, MomentsTypeOK
  <2> QED
    BY <1>4, <2>1, <2>2, <2>3, <2>4, <2>5, <2>6, <2>7, <2>8, <2>9, <2>10
       DEF MomentsNext, ToggleLike, SubmitComment, DeleteMoment, ReportMoment, Kinds
<1> QED
  BY <1>1, <1>2, <1>3, <1>4 DEF SocialNext

-----------------------------------------------------------------------------
(* The timeline.                                                           *)

Loading == [of : {0} \cup PostId, list : Lists(PostId), post : {None} \cup PostRow, here : BOOLEAN]
WallType == [list : Lists(PostId), open : {0} \cup PostId, post : {None} \cup PostRow]
TimelineTypeOK == /\ posts \in Table(PostId)
                  /\ wall \in WallType
                  /\ saved \in [list : Lists(PostId), post : Table(PostId)]
                  /\ loads \in Seq(Loading)
                  /\ deeds \subseteq [kind : Kinds, on : PostId, at : {"post", "page", "gone"}]
                  /\ missed \in BOOLEAN

\* A list holds posts that were published: their numbers are not used again.
Used == {p \in PostId : posts[p] # None}
ListsUsed == /\ DOMAIN wall.list \subseteq Used /\ DOMAIN saved.list \subseteq Used
             /\ \A i \in DOMAIN loads : DOMAIN loads[i].list \subseteq Used
             /\ wall.open \in {0} \cup Used

\* What is under way for a post is for the post that is open.
OfThePost == /\ \A i \in DOMAIN loads : loads[i].here /\ loads[i].of # 0 => loads[i].of = wall.open
             /\ \A d \in deeds : d.at = "post" => d.on = wall.open
             /\ wall.open = 0 => wall.post = None
             /\ page # "timeline" => wall.open = 0

\* The GETs under way that the page will show, of a post or of the list, and what each holds.
LoadsOf(p) == {i \in DOMAIN loads : loads[i].here /\ loads[i].of = p}
ListSeen == [i \in DOMAIN loads |-> loads[i].list]
PostSeen == [i \in DOMAIN loads |-> loads[i].post]

\* What the page will show last is what the server holds.
ListRight == ShownLast(LoadsOf(0), ListSeen, wall.list, Posts)
PostRight(p) == posts[p] = Tombstone \/ ShownLast(LoadsOf(p), PostSeen, wall.post, posts[p])
WallRight == page = "timeline" /\ ~missed => IF wall.open = 0 THEN ListRight ELSE PostRight(wall.open)

TimelineInv == TimelineTypeOK /\ ListsUsed /\ OfThePost /\ WallRight

\* What the server answers of a table.
LEMMA ListedPosts ==
  ASSUME NEW table \in Table(PostId)
  PROVE  /\ [p \in {k \in PostId : There(table[k])} |-> table[p]] \in Lists(PostId)
         /\ \A p : (IF p # 0 /\ There(table[p]) THEN table[p] ELSE None) = None
                   \/ (p # 0 /\ There(table[p]))
         /\ \A p \in PostId : There(table[p]) => table[p] \in PostRow /\ table[p] # None
<1>1. \A p \in PostId : There(table[p]) => table[p] \in PostRow /\ table[p] # None
  BY DEF Table, There
<1>2. [p \in {k \in PostId : There(table[k])} |-> table[p]] \in [{k \in PostId : There(table[k])} -> PostRow]
  BY <1>1
<1> QED
  BY <1>1, <1>2 DEF Lists

\* A GET is sent: when it is for the page, it is the last of its kind.
LEMMA Loaded ==
  ASSUME NEW pending \in Seq(Loading), posts' \in Table(PostId), NEW p \in {0} \cup PostId, NEW here \in BOOLEAN,
         Load(pending, p, here)
  PROVE  /\ loads' \in Seq(Loading) /\ Len(loads') = Len(pending) + 1
         /\ \A i \in 1..Len(pending) : loads'[i] = pending[i]
         /\ loads'[Len(pending) + 1].of = p /\ loads'[Len(pending) + 1].here = here
         /\ loads'[Len(pending) + 1].list = Posts' /\ DOMAIN Posts' \subseteq Used'
         /\ loads'[Len(pending) + 1].post = Post(p)'
<1> DEFINE new == [of |-> p, list |-> Posts', post |-> Post(p)', here |-> here]
           n == Len(pending)
<1>1. Posts' \in Lists(PostId)
  BY ListedPosts DEF Posts
<1>2. Post(p)' \in {None} \cup PostRow
  <2>1. CASE p # 0 /\ There(posts'[p])
    BY <2>1, ListedPosts DEF Post
  <2>2. CASE ~(p # 0 /\ There(posts'[p]))
    BY <2>2 DEF Post
  <2> QED
    BY <2>1, <2>2
<1>3. new \in Loading /\ new.of = p /\ new.here = here /\ new.list = Posts' /\ new.post = Post(p)'
  BY <1>1, <1>2 DEF Loading
<1>4. DOMAIN Posts' \subseteq Used'
  BY DEF Posts, Used, There
<1>5. loads' = Append(pending, new)
  BY DEF Load
<1> HIDE DEF new
<1>6. n \in Nat /\ loads' \in Seq(Loading) /\ Len(loads') = n + 1 /\ \A i \in 1..n : loads'[i] = pending[i]
  BY <1>3, <1>5
<1>7. loads'[n + 1] = new
  BY <1>3, <1>5
<1> QED
  BY <1>3, <1>4, <1>6, <1>7

\* The list is asked for: it is what the page will show.
LEMMA ListAsked ==
  ASSUME NEW pending \in Seq(Loading), posts' \in Table(PostId), Load(pending, 0, TRUE)
  PROVE  ListRight'
<1> DEFINE n == Len(pending)
<1>1. /\ loads' \in Seq(Loading) /\ n \in Nat /\ Len(loads') = n + 1
      /\ loads'[n + 1].of = 0 /\ loads'[n + 1].here = TRUE /\ loads'[n + 1].list = Posts'
  <2>1. 0 \in {0} \cup PostId /\ TRUE \in BOOLEAN /\ n \in Nat
    OBVIOUS
  <2> QED
    BY <2>1, Loaded
<1>2. DOMAIN loads' = 1..n + 1
  BY <1>1
<1> HIDE DEF n
<1> DEFINE J == LoadsOf(0)'
           g == ListSeen'
<1>3. J \subseteq 1..n + 1 /\ n + 1 \in J /\ g[n + 1] = Posts'
  BY <1>1, <1>2 DEF LoadsOf, ListSeen
<1> HIDE DEF J, g
<1>4. n + 1 \in Nat
  BY <1>1
<1>5. ShownLast(J, g, wall'.list, Posts')
  BY <1>3, <1>4, EndsLast
<1> QED
  BY <1>5 DEF ListRight, J, g

\* A post is asked for: it is what the page will show, unless it is gone.
LEMMA PostAsked ==
  ASSUME NEW pending \in Seq(Loading), posts' \in Table(PostId), NEW p \in PostId, posts'[p] # None,
         Load(pending, p, TRUE)
  PROVE  PostRight(p)'
<1> SUFFICES ASSUME posts'[p] # Tombstone PROVE ShownLast(LoadsOf(p)', PostSeen', wall'.post, posts'[p])
  BY DEF PostRight
<1> DEFINE n == Len(pending)
<1>0. p # 0 /\ Post(p)' = posts'[p]
  BY PostAssumption DEF Post, There
<1>1. /\ loads' \in Seq(Loading) /\ n \in Nat /\ Len(loads') = n + 1
      /\ loads'[n + 1].of = p /\ loads'[n + 1].here = TRUE /\ loads'[n + 1].post = posts'[p]
  <2>1. p \in {0} \cup PostId /\ TRUE \in BOOLEAN /\ n \in Nat
    OBVIOUS
  <2> HIDE DEF n
  <2>2. /\ loads' \in Seq(Loading) /\ Len(loads') = n + 1 /\ loads'[n + 1].of = p
        /\ loads'[n + 1].here = TRUE /\ loads'[n + 1].post = Post(p)'
    BY <2>1, Loaded DEF n
  <2> QED
    BY <1>0, <2>1, <2>2
<1>2. DOMAIN loads' = 1..n + 1
  BY <1>1
<1> HIDE DEF n
<1> DEFINE J == LoadsOf(p)'
           g == PostSeen'
<1>3. J \subseteq 1..n + 1 /\ n + 1 \in J /\ g[n + 1] = posts'[p]
  BY <1>1, <1>2 DEF LoadsOf, PostSeen
<1> HIDE DEF J, g
<1>4. n + 1 \in Nat
  BY <1>1
<1>5. ShownLast(J, g, wall'.post, posts'[p])
  BY <1>3, <1>4, EndsLast
<1> QED
  BY <1>5 DEF J, g

\* The lists that are under way are of posts that were published, and what is under way
\* for a post is for the one that is open.
Fit(pending, used, open) ==
  \A i \in DOMAIN pending : /\ DOMAIN pending[i].list \subseteq used
                            /\ pending[i].here /\ pending[i].of # 0 => pending[i].of = open

\* A GET that is sent keeps what holds of those under way, if it is for the list, for
\* the post that is open, or for a page that closed.
LEMMA LoadedKept ==
  ASSUME NEW pending \in Seq(Loading), posts' \in Table(PostId), NEW p \in {0} \cup PostId, NEW here \in BOOLEAN,
         Load(pending, p, here), Used \subseteq Used', NEW open,
         Fit(pending, Used, open), here = FALSE \/ p = 0 \/ p = open
  PROVE  loads' \in Seq(Loading) /\ Fit(loads', Used', open)
<1> DEFINE n == Len(pending)
<1>1. n \in Nat /\ DOMAIN pending = 1..n
  OBVIOUS
<1>2. /\ loads' \in Seq(Loading) /\ Len(loads') = n + 1
      /\ \A i \in 1..n : loads'[i] = pending[i]
      /\ loads'[n + 1].of = p /\ loads'[n + 1].here = here
      /\ DOMAIN loads'[n + 1].list \subseteq Used'
  BY Loaded
<1> HIDE DEF n
<1>3. DOMAIN loads' = 1..n + 1
  BY <1>1, <1>2
<1> SUFFICES ASSUME NEW i \in DOMAIN loads'
             PROVE  /\ DOMAIN loads'[i].list \subseteq Used'
                    /\ loads'[i].here /\ loads'[i].of # 0 => loads'[i].of = open
  BY <1>2 DEF Fit
<1>4. i \in 1..n \/ i = n + 1
  BY <1>1, <1>3
<1> QED
  BY <1>1, <1>2, <1>4 DEF Fit

\* The deeds of a page that closes.
LEMMA DeedsUnmounted ==
  ASSUME TimelineTypeOK
  PROVE  /\ Unmounted(deeds) \subseteq [kind : Kinds, on : PostId, at : {"post", "page", "gone"}]
         /\ \A d \in Unmounted(deeds) : d.at # "post"
<1> SUFFICES ASSUME NEW d \in deeds
             PROVE  /\ [d EXCEPT !.at = IF @ = "post" THEN "page" ELSE @]
                         \in [kind : Kinds, on : PostId, at : {"post", "page", "gone"}]
                    /\ [d EXCEPT !.at = IF @ = "post" THEN "page" ELSE @].at # "post"
  BY DEF Unmounted
<1>1. d \in [kind : Kinds, on : PostId, at : {"post", "page", "gone"}]
  BY DEF TimelineTypeOK
<1> QED
  BY <1>1

\* What is under way of a post, when the page of the post closes.
LEMMA LeftLoads ==
  ASSUME TimelineTypeOK
  PROVE  /\ Left(loads) \in Seq(Loading) /\ DOMAIN Left(loads) = DOMAIN loads
         /\ \A i \in DOMAIN loads : /\ Left(loads)[i].list = loads[i].list
                                    /\ Left(loads)[i].here => Left(loads)[i].of = 0
<1>1. Left(loads) = [i \in 1..Len(loads) |-> [loads[i] EXCEPT !.here = @ /\ loads[i].of = 0]]
  BY DEF Left, TimelineTypeOK
<1>2. ASSUME NEW i \in 1..Len(loads)
      PROVE  LET l == [loads[i] EXCEPT !.here = @ /\ loads[i].of = 0]
             IN l \in Loading /\ l.list = loads[i].list /\ (l.here => l.of = 0)
  <2>1. loads[i] \in Loading
    BY DEF TimelineTypeOK
  <2>2. (loads[i].here /\ loads[i].of = 0) \in BOOLEAN
    OBVIOUS
  <2> QED
    BY <2>1, <2>2 DEF Loading
<1>3. Left(loads) \in Seq(Loading)
  BY <1>1, <1>2 DEF TimelineTypeOK
<1>6. DOMAIN Left(loads) = 1..Len(loads) /\ \A i \in 1..Len(loads) :
        Left(loads)[i] = [loads[i] EXCEPT !.here = @ /\ loads[i].of = 0]
  BY <1>1
<1>4. DOMAIN loads = 1..Len(loads)
  BY DEF TimelineTypeOK
<1>5. ASSUME NEW i \in DOMAIN loads
      PROVE  /\ Left(loads)[i].list = loads[i].list
             /\ Left(loads)[i].here => Left(loads)[i].of = 0
  <2>1. i \in 1..Len(loads) /\ Left(loads)[i] = [loads[i] EXCEPT !.here = @ /\ loads[i].of = 0]
    BY <1>4, <1>6
  <2> QED
    BY <1>2, <2>1
<1>7. DOMAIN Left(loads) = DOMAIN loads
  BY <1>4, <1>6
<1> QED
  BY <1>3, <1>5, <1>7

\* A GET that ends leaves the others in their order.
LEMMA LoadTaken ==
  ASSUME TimelineTypeOK, NEW i \in DOMAIN loads, loads' = RemoveAt(loads, i)
  PROVE  /\ loads' \in Seq(Loading) /\ Len(loads) \in Nat /\ DOMAIN loads = 1..Len(loads)
         /\ \A j \in DOMAIN loads' : \E k \in DOMAIN loads : loads'[j] = loads[k]
         /\ \A p : /\ LoadsOf(p) \in SUBSET (1..Len(loads)) /\ LoadsOf(p)' \in SUBSET (1..Len(loads) - 1)
                   /\ \A j \in 1..Len(loads) - 1 : j \in LoadsOf(p)' <=> (IF j < i THEN j ELSE j + 1) \in LoadsOf(p)
         /\ \A j \in 1..Len(loads) - 1 : /\ ListSeen'[j] = ListSeen[IF j < i THEN j ELSE j + 1]
                                         /\ PostSeen'[j] = PostSeen[IF j < i THEN j ELSE j + 1]
<1> DEFINE n == Len(loads)
<1>1. loads \in Seq(Loading) /\ n \in Nat /\ i \in 1..n /\ DOMAIN loads = 1..n
  BY DEF TimelineTypeOK
<1>2. /\ loads' \in Seq(Loading) /\ Len(loads') = n - 1
      /\ \A j \in 1..n - 1 : loads'[j] = IF j < i THEN loads[j] ELSE loads[j + 1]
  BY <1>1, TakenOut
<1>3. DOMAIN loads' = 1..n - 1
  BY <1>1, <1>2
<1> HIDE DEF n
<1>4. \A j \in 1..n - 1 : /\ (IF j < i THEN j ELSE j + 1) \in 1..n
                          /\ loads'[j] = loads[IF j < i THEN j ELSE j + 1]
  BY <1>1, <1>2
<1>5. \A j \in DOMAIN loads' : \E k \in DOMAIN loads : loads'[j] = loads[k]
  BY <1>1, <1>3, <1>4
<1>6. ASSUME NEW p
      PROVE  /\ LoadsOf(p) \in SUBSET (1..n) /\ LoadsOf(p)' \in SUBSET (1..n - 1)
             /\ \A j \in 1..n - 1 : j \in LoadsOf(p)' <=> (IF j < i THEN j ELSE j + 1) \in LoadsOf(p)
  BY <1>1, <1>3, <1>4 DEF LoadsOf
<1>7. \A j \in 1..n - 1 : /\ ListSeen'[j] = ListSeen[IF j < i THEN j ELSE j + 1]
                          /\ PostSeen'[j] = PostSeen[IF j < i THEN j ELSE j + 1]
  BY <1>1, <1>3, <1>4 DEF ListSeen, PostSeen
<1> QED
  BY <1>1, <1>2, <1>5, <1>6, <1>7 DEF n

\* The answer to a GET arrives: the page shows it if it asked for it, and a post that is
\* not there is not shown.
LEMMA ArrivalKeepsTimeline ==
  ASSUME TimelineInv, NEW i \in DOMAIN loads, Arrives(i)
  PROVE  TimelineInv'
<1> DEFINE l == loads[i]
           n == Len(loads)
<1>0. TimelineTypeOK /\ ListsUsed /\ OfThePost
  BY DEF TimelineInv
<1>1. /\ UNCHANGED <<page, posts, deeds>> /\ loads' = RemoveAt(loads, i)
      /\ missed' = (missed \/ (l.here /\ \E j \in 1..i - 1 : loads[j].here /\ loads[j].of = l.of))
  BY DEF Arrives, InTimeline
<1>2. PICK list \in {Posts, l.list}, post \in {Post(l.of), l.post} :
         IF l.of = 0
         THEN /\ saved' = [saved EXCEPT !.list = list]
              /\ wall' = IF l.here THEN [wall EXCEPT !.list = list] ELSE wall
         ELSE /\ saved' = IF post = None THEN saved ELSE [saved EXCEPT !.post[l.of] = post]
              /\ wall' = IF post = None \/ ~l.here THEN wall ELSE [wall EXCEPT !.post = post]
  <2>1. PICK now \in BOOLEAN :
           LET list == IF now THEN Posts ELSE l.list
               post == IF now THEN Post(l.of) ELSE l.post
           IN IF l.of = 0
              THEN /\ saved' = [saved EXCEPT !.list = list]
                   /\ wall' = IF l.here THEN [wall EXCEPT !.list = list] ELSE wall
              ELSE /\ saved' = IF post = None THEN saved ELSE [saved EXCEPT !.post[l.of] = post]
                   /\ wall' = IF post = None \/ ~l.here THEN wall ELSE [wall EXCEPT !.post = post]
    BY DEF Arrives
  <2>2. CASE now
    BY <2>1, <2>2
  <2>3. CASE ~now
    BY <2>1, <2>3
  <2> QED
    BY <2>2, <2>3
<1>3. l \in Loading /\ i \in 1..n /\ n \in Nat
  BY <1>0 DEF TimelineTypeOK
<1>4. /\ Posts \in Lists(PostId) /\ DOMAIN Posts \subseteq Used
      /\ \A p \in {0} \cup PostId : Post(p) \in {None} \cup PostRow
      /\ \A p \in PostId : p # 0 /\ posts[p] # None /\ posts[p] # Tombstone => Post(p) = posts[p]
  BY <1>0, ListedPosts DEF TimelineTypeOK, Posts, Post, There, Used
<1>5. list \in Lists(PostId) /\ DOMAIN list \subseteq Used /\ post \in {None} \cup PostRow
  BY <1>0, <1>2, <1>3, <1>4 DEF Loading, ListsUsed
<1>6. /\ wall' \in WallType /\ wall'.open = wall.open /\ DOMAIN wall'.list \subseteq Used
      /\ l.of = 0 /\ l.here => wall'.list = list /\ wall'.post = wall.post
      /\ l.of = 0 /\ ~l.here => wall'.list = wall.list /\ wall'.post = wall.post
      /\ l.of # 0 => wall'.list = wall.list /\ wall'.post = IF post = None \/ ~l.here THEN wall.post ELSE post
  BY <1>0, <1>2, <1>5 DEF TimelineTypeOK, WallType, ListsUsed
<1>7. saved' \in [list : Lists(PostId), post : Table(PostId)] /\ DOMAIN saved'.list \subseteq Used
  <2>1. CASE l.of = 0
    BY <1>0, <1>2, <1>5, <2>1 DEF TimelineTypeOK, ListsUsed
  <2>2. CASE l.of # 0
    BY <1>0, <1>2, <1>3, <1>5, <2>2 DEF TimelineTypeOK, ListsUsed, Table, Loading
  <2> QED
    BY <2>1, <2>2
<1>8. /\ loads' \in Seq(Loading) /\ n \in Nat /\ DOMAIN loads = 1..n
      /\ \A j \in DOMAIN loads' : \E k \in DOMAIN loads : loads'[j] = loads[k]
      /\ \A p : /\ LoadsOf(p) \in SUBSET (1..n) /\ LoadsOf(p)' \in SUBSET (1..n - 1)
                /\ \A j \in 1..n - 1 : j \in LoadsOf(p)' <=> (IF j < i THEN j ELSE j + 1) \in LoadsOf(p)
      /\ \A j \in 1..n - 1 : /\ ListSeen'[j] = ListSeen[IF j < i THEN j ELSE j + 1]
                             /\ PostSeen'[j] = PostSeen[IF j < i THEN j ELSE j + 1]
  BY <1>0, <1>1, LoadTaken
<1>9. TimelineTypeOK'
  BY <1>0, <1>1, <1>6, <1>7, <1>8 DEF TimelineTypeOK
<1>10. ListsUsed' /\ Used' = Used
  BY <1>0, <1>1, <1>6, <1>7, <1>8 DEF ListsUsed, Used
<1>11. OfThePost'
  <2>1. wall.open = 0 => wall'.post = None
    BY <1>0, <1>3, <1>6, <1>8 DEF OfThePost
  <2> QED
    BY <1>0, <1>1, <1>6, <1>8, <2>1 DEF OfThePost
<1>12. ASSUME ~missed', NEW p, i \in LoadsOf(p) PROVE \A j \in LoadsOf(p) : j >= i
  <2>1. l.here /\ l.of = p
    BY <1>12 DEF LoadsOf
  <2>2. \A j \in LoadsOf(p) : j \in 1..n /\ loads[j].here /\ loads[j].of = p
    BY <1>8 DEF LoadsOf
  <2>3. \A j \in 1..i - 1 : ~(loads[j].here /\ loads[j].of = p)
    BY <1>1, <1>12, <2>1
  <2> QED
    BY <1>3, <2>2, <2>3
<1>13. ASSUME page = "timeline", ~missed' PROVE IF wall'.open = 0 THEN ListRight' ELSE PostRight(wall.open)'
  <2>0. ~missed /\ posts' = posts /\ Posts' = Posts
    BY <1>1, <1>13 DEF Posts
  <2>1. CASE wall.open = 0
    <3>1. ShownLast(LoadsOf(0), ListSeen, wall.list, Posts)
      BY <1>13, <2>0, <2>1 DEF TimelineInv, WallRight, ListRight
    <3>2. IF i \in LoadsOf(0) THEN (\A j \in LoadsOf(0) : j >= i) /\ (ListSeen[i] = Posts => wall'.list = Posts)
                              ELSE wall'.list = wall.list
      <4>1. i \in LoadsOf(0) <=> l.here /\ l.of = 0
        BY DEF LoadsOf
      <4>2. ListSeen[i] = l.list
        BY DEF ListSeen
      <4>3. CASE l.here /\ l.of = 0
        BY <1>2, <1>6, <1>12, <1>13, <4>1, <4>2, <4>3
      <4>4. CASE ~(l.here /\ l.of = 0)
        BY <1>3, <1>6, <4>1, <4>4 DEF Loading
      <4> QED
        BY <4>3, <4>4
    <3>3. /\ LoadsOf(0) \in SUBSET (1..n) /\ LoadsOf(0)' \in SUBSET (1..n - 1)
          /\ \A j \in 1..n - 1 : /\ j \in LoadsOf(0)' <=> (IF j < i THEN j ELSE j + 1) \in LoadsOf(0)
                                /\ ListSeen'[j] = ListSeen[IF j < i THEN j ELSE j + 1]
      BY <1>8
    <3>4. ShownLast(LoadsOf(0)', ListSeen', wall'.list, Posts)
      BY <1>3, <3>1, <3>2, <3>3, EndsTaken
    <3> QED
      BY <1>6, <2>0, <2>1, <3>4 DEF ListRight
  <2>2. CASE wall.open # 0
    <3>0. PICK p \in PostId : p = wall.open
      BY <1>0, <2>2 DEF ListsUsed, Used
    <3>1. posts[p] # None /\ wall'.open = p /\ p # 0
      BY <1>0, <1>6, <2>2, <3>0 DEF ListsUsed, Used
    <3> SUFFICES ASSUME posts[p] # Tombstone PROVE ShownLast(LoadsOf(p)', PostSeen', wall'.post, posts[p])
      BY <2>0, <3>1 DEF PostRight
    <3>2. ShownLast(LoadsOf(p), PostSeen, wall.post, posts[p])
      BY <1>13, <2>0, <2>2, <3>0 DEF TimelineInv, WallRight, PostRight
    <3>3. IF i \in LoadsOf(p) THEN (\A j \in LoadsOf(p) : j >= i) /\ (PostSeen[i] = posts[p] => wall'.post = posts[p])
                              ELSE wall'.post = wall.post
      <4>1. i \in LoadsOf(p) <=> l.here /\ l.of = p
        BY DEF LoadsOf
      <4>2. PostSeen[i] = l.post /\ Post(p) = posts[p]
        BY <1>4, <3>1 DEF PostSeen
      <4>3. CASE l.here /\ l.of = p
        <5>1. l.post = posts[p] => post = posts[p]
          BY <1>2, <4>2, <4>3
        <5>2. wall'.post = IF post = None THEN wall.post ELSE post
          BY <1>6, <3>1, <4>3
        <5> QED
          BY <1>12, <1>13, <3>1, <4>1, <4>2, <4>3, <5>1, <5>2
      <4>4. CASE ~(l.here /\ l.of = p)
        <5>1. ~l.here \/ l.of = 0
          BY <1>0, <3>0, <4>4 DEF OfThePost
        <5> QED
          BY <1>3, <1>6, <4>1, <4>4, <5>1 DEF Loading
      <4> QED
        BY <4>3, <4>4
    <3>4. /\ LoadsOf(p) \in SUBSET (1..n) /\ LoadsOf(p)' \in SUBSET (1..n - 1)
          /\ \A j \in 1..n - 1 : /\ j \in LoadsOf(p)' <=> (IF j < i THEN j ELSE j + 1) \in LoadsOf(p)
                                /\ PostSeen'[j] = PostSeen[IF j < i THEN j ELSE j + 1]
      BY <1>8
    <3> QED
      BY <1>3, <3>2, <3>3, <3>4, EndsTaken
  <2> QED
    BY <2>1, <2>2
<1>14. WallRight'
  BY <1>1, <1>13 DEF WallRight
<1> QED
  BY <1>9, <1>10, <1>11, <1>14 DEF TimelineInv

\* A GET is lost.
LEMMA LossKeepsTimeline ==
  ASSUME TimelineInv, NEW i \in DOMAIN loads, LoadFails(i)
  PROVE  TimelineInv'
<1> DEFINE n == Len(loads)
<1>0. TimelineTypeOK /\ ListsUsed /\ OfThePost
  BY DEF TimelineInv
<1>1. /\ UNCHANGED <<page, posts, wall, saved, deeds>> /\ loads' = RemoveAt(loads, i)
      /\ missed' = (missed \/ loads[i].here)
  BY DEF LoadFails, InTimeline
<1>2. /\ loads' \in Seq(Loading) /\ n \in Nat /\ DOMAIN loads = 1..n
      /\ \A j \in DOMAIN loads' : \E k \in DOMAIN loads : loads'[j] = loads[k]
      /\ \A p : /\ LoadsOf(p) \in SUBSET (1..n) /\ LoadsOf(p)' \in SUBSET (1..n - 1)
                /\ \A j \in 1..n - 1 : j \in LoadsOf(p)' <=> (IF j < i THEN j ELSE j + 1) \in LoadsOf(p)
      /\ \A j \in 1..n - 1 : /\ ListSeen'[j] = ListSeen[IF j < i THEN j ELSE j + 1]
                             /\ PostSeen'[j] = PostSeen[IF j < i THEN j ELSE j + 1]
  BY <1>0, <1>1, LoadTaken
<1>3. loads[i] \in Loading /\ i \in 1..n
  BY <1>0, <1>2 DEF TimelineTypeOK
<1>4. TimelineTypeOK' /\ ListsUsed' /\ OfThePost' /\ Posts' = Posts
  BY <1>0, <1>1, <1>2, <1>3 DEF TimelineTypeOK, ListsUsed, Used, OfThePost, Loading, Posts
<1>5. ASSUME page = "timeline", ~missed' PROVE IF wall.open = 0 THEN ListRight' ELSE PostRight(wall.open)'
  <2>1. ~missed /\ \A p : i \notin LoadsOf(p)
    BY <1>1, <1>5 DEF LoadsOf
  <2>2. CASE wall.open = 0
    <3>1. ShownLast(LoadsOf(0), ListSeen, wall.list, Posts)
      BY <1>5, <2>1, <2>2 DEF TimelineInv, WallRight, ListRight
    <3>2. IF i \in LoadsOf(0) THEN (\A j \in LoadsOf(0) : j >= i) /\ (ListSeen[i] = Posts => wall.list = Posts)
                              ELSE wall.list = wall.list
      BY <2>1
    <3>3. /\ LoadsOf(0) \in SUBSET (1..n) /\ LoadsOf(0)' \in SUBSET (1..n - 1)
          /\ \A j \in 1..n - 1 : /\ j \in LoadsOf(0)' <=> (IF j < i THEN j ELSE j + 1) \in LoadsOf(0)
                                /\ ListSeen'[j] = ListSeen[IF j < i THEN j ELSE j + 1]
      BY <1>2
    <3>4. ShownLast(LoadsOf(0)', ListSeen', wall.list, Posts)
      BY <1>2, <1>3, <3>1, <3>2, <3>3, EndsTaken
    <3> QED
      BY <1>1, <1>4, <2>2, <3>4 DEF ListRight
  <2>3. CASE wall.open # 0
    <3>0. PICK p \in PostId : p = wall.open
      BY <1>0, <2>3 DEF ListsUsed, Used
    <3> SUFFICES ASSUME posts[p] # Tombstone PROVE ShownLast(LoadsOf(p)', PostSeen', wall.post, posts[p])
      BY <1>1, <2>3, <3>0 DEF PostRight
    <3>1. ShownLast(LoadsOf(p), PostSeen, wall.post, posts[p])
      BY <1>5, <2>1, <2>3, <3>0 DEF TimelineInv, WallRight, PostRight
    <3>2. IF i \in LoadsOf(p) THEN (\A j \in LoadsOf(p) : j >= i) /\ (PostSeen[i] = posts[p] => wall.post = posts[p])
                              ELSE wall.post = wall.post
      BY <2>1
    <3>3. /\ LoadsOf(p) \in SUBSET (1..n) /\ LoadsOf(p)' \in SUBSET (1..n - 1)
          /\ \A j \in 1..n - 1 : /\ j \in LoadsOf(p)' <=> (IF j < i THEN j ELSE j + 1) \in LoadsOf(p)
                                /\ PostSeen'[j] = PostSeen[IF j < i THEN j ELSE j + 1]
      BY <1>2
    <3> QED
      BY <1>2, <1>3, <3>1, <3>2, <3>3, EndsTaken
  <2> QED
    BY <2>2, <2>3
<1>6. WallRight'
  BY <1>1, <1>5 DEF WallRight
<1> QED
  BY <1>4, <1>6 DEF TimelineInv

\* A step that leaves the posts, the page and what is under way alone.
LEMMA TimelineKept ==
  ASSUME TimelineInv, UNCHANGED <<posts, wall, saved, loads, missed>>, page' = "timeline" <=> page = "timeline",
         deeds' \subseteq [kind : Kinds, on : PostId, at : {"post", "page", "gone"}],
         \A d \in deeds' : d.at = "post" => d.on = wall.open
  PROVE  TimelineInv'
<1>1. Posts' = Posts /\ ListSeen' = ListSeen /\ PostSeen' = PostSeen /\ \A p : LoadsOf(p)' = LoadsOf(p)
  BY DEF Posts, ListSeen, PostSeen, LoadsOf
<1>2. TimelineTypeOK' /\ ListsUsed' /\ OfThePost'
  BY DEF TimelineInv, TimelineTypeOK, ListsUsed, Used, OfThePost
<1>3. WallRight'
  BY <1>1 DEF TimelineInv, WallRight, ListRight, PostRight
<1> QED
  BY <1>2, <1>3 DEF TimelineInv

\* The page closes.
LEMMA ClosingKeepsTimeline ==
  ASSUME TimelineInv, TimelineClose, page' # "timeline"
  PROVE  TimelineInv'
<1>0. TimelineTypeOK /\ ListsUsed
  BY DEF TimelineInv
<1>1. UNCHANGED <<posts, saved>> /\ wall' = NoWall /\ missed' = FALSE /\ Used' = Used
  BY DEF TimelineClose, Used
<1>2. loads' = [i \in 1..Len(loads) |-> [loads[i] EXCEPT !.here = FALSE]]
  BY <1>0 DEF TimelineClose, TimelineTypeOK
<1>3. ASSUME NEW i \in 1..Len(loads)
      PROVE  LET l == [loads[i] EXCEPT !.here = FALSE]
             IN l \in Loading /\ l.here = FALSE /\ l.list = loads[i].list
  <2>1. loads[i] \in Loading
    BY <1>0 DEF TimelineTypeOK
  <2> QED
    BY <2>1 DEF Loading
<1>4. loads' \in Seq(Loading) /\ DOMAIN loads' = 1..Len(loads) /\ DOMAIN loads = 1..Len(loads)
  BY <1>0, <1>2, <1>3 DEF TimelineTypeOK
<1>5. \A i \in DOMAIN loads' : loads'[i].here = FALSE /\ loads'[i].list = loads[i].list
  BY <1>2, <1>3, <1>4
<1>6. /\ deeds' \subseteq [kind : Kinds, on : PostId, at : {"post", "page", "gone"}]
      /\ \A d \in deeds' : d.at = "gone"
  <2> SUFFICES ASSUME NEW d \in deeds
               PROVE  /\ [d EXCEPT !.at = "gone"] \in [kind : Kinds, on : PostId, at : {"post", "page", "gone"}]
                      /\ [d EXCEPT !.at = "gone"].at = "gone"
    BY DEF TimelineClose
  <2>1. d \in [kind : Kinds, on : PostId, at : {"post", "page", "gone"}]
    BY <1>0 DEF TimelineTypeOK
  <2> QED
    BY <2>1
<1>7. NoWall \in WallType /\ NoWall.open = 0 /\ NoWall.post = None /\ DOMAIN NoWall.list = {}
  <2>1. Nothing \in [{} -> PostRow] /\ DOMAIN Nothing = {}
    BY DEF Nothing
  <2>2. Nothing \in Lists(PostId)
    BY <2>1 DEF Lists
  <2> QED
    BY <2>1, <2>2 DEF NoWall, WallType
<1>8. TimelineTypeOK'
  BY <1>0, <1>1, <1>4, <1>6, <1>7 DEF TimelineTypeOK
<1>9. ListsUsed'
  BY <1>0, <1>1, <1>4, <1>5, <1>7 DEF ListsUsed
<1>10. OfThePost'
  BY <1>1, <1>5, <1>6, <1>7 DEF OfThePost
<1> QED
  BY <1>8, <1>9, <1>10 DEF TimelineInv, WallRight

\* A number that is used stays used.
LEMMA StayUsed ==
  ASSUME \A p \in PostId : posts[p] # None => posts'[p] # None
  PROVE  Used \subseteq Used'
BY DEF Used

\* The page of a post goes back to the list.
LEMMA BackKeepsTimeline ==
  ASSUME TimelineInv, posts' \in Table(PostId), \A p \in PostId : posts[p] # None => posts'[p] # None,
         ToList, UNCHANGED saved, missed' \in BOOLEAN, NEW some \in SUBSET deeds, deeds' = Unmounted(some)
  PROVE  TimelineInv'
<1>0. TimelineTypeOK /\ ListsUsed /\ OfThePost /\ Used \subseteq Used'
  BY StayUsed DEF TimelineInv
<1>1. wall' = [wall EXCEPT !.open = 0, !.post = None] /\ Load(Left(loads), 0, TRUE)
  BY DEF ToList
<1>2. wall' \in WallType /\ wall'.open = 0 /\ wall'.post = None /\ wall'.list = wall.list
  BY <1>0, <1>1 DEF TimelineTypeOK, WallType
<1>3. Left(loads) \in Seq(Loading) /\ Fit(Left(loads), Used, 0)
  BY <1>0, LeftLoads DEF ListsUsed, Fit
<1>4. 0 \in {0} \cup PostId /\ TRUE \in BOOLEAN
  OBVIOUS
<1>5. loads' \in Seq(Loading) /\ Fit(loads', Used', 0)
  BY <1>0, <1>1, <1>3, <1>4, LoadedKept
<1>6. /\ deeds' \subseteq [kind : Kinds, on : PostId, at : {"post", "page", "gone"}]
      /\ \A d \in deeds' : d.at # "post"
  <2>1. Unmounted(some) \subseteq Unmounted(deeds)
    BY DEF Unmounted
  <2> QED
    BY <1>0, <2>1, DeedsUnmounted
<1>7. TimelineTypeOK'
  BY <1>0, <1>2, <1>5, <1>6 DEF TimelineTypeOK
<1>8. ListsUsed' /\ OfThePost'
  BY <1>0, <1>2, <1>5, <1>6 DEF ListsUsed, OfThePost, Fit
<1>9. ListRight'
  BY <1>1, <1>3, ListAsked
<1> QED
  BY <1>2, <1>7, <1>8, <1>9 DEF TimelineInv, WallRight

\* A GET is sent that the page does not wait for.
LEMMA AwayKeepsTimeline ==
  ASSUME TimelineInv, posts' \in Table(PostId), \A p \in PostId : posts[p] # None => posts'[p] # None,
         UNCHANGED <<page, wall, saved>>, missed' = TRUE, deeds' \subseteq deeds,
         UNCHANGED loads \/ \E p \in {0} \cup PostId : Load(loads, p, FALSE)
  PROVE  TimelineInv'
<1>0. TimelineTypeOK /\ ListsUsed /\ OfThePost /\ Used \subseteq Used'
  BY StayUsed DEF TimelineInv
<1>1. CASE UNCHANGED loads
  BY <1>0, <1>1 DEF TimelineInv, TimelineTypeOK, ListsUsed, OfThePost, WallRight
<1>2. ASSUME NEW p \in {0} \cup PostId, Load(loads, p, FALSE) PROVE TimelineInv'
  <2>1. loads \in Seq(Loading) /\ Fit(loads, Used, wall.open)
    BY <1>0 DEF TimelineTypeOK, ListsUsed, OfThePost, Fit
  <2>2. FALSE \in BOOLEAN
    OBVIOUS
  <2>3. loads' \in Seq(Loading) /\ Fit(loads', Used', wall.open)
    BY <1>0, <1>2, <2>1, <2>2, LoadedKept
  <2> QED
    BY <1>0, <2>3 DEF TimelineInv, TimelineTypeOK, ListsUsed, OfThePost, WallRight, Fit
<1> QED
  BY <1>1, <1>2

\* The page asks for the list, or for the post that is open.
LEMMA AskKeepsTimeline ==
  ASSUME TimelineInv, posts' \in Table(PostId), \A p \in PostId : posts[p] # None => posts'[p] # None,
         UNCHANGED saved, wall' \in WallType, DOMAIN wall'.list \subseteq Used,
         NEW open \in {0} \cup Used, wall'.open = open, open = 0 => wall'.post = None,
         page' # "timeline" => open = 0,
         Load(loads, open, TRUE), missed' \in BOOLEAN,
         \A i \in DOMAIN loads : loads[i].here /\ loads[i].of # 0 => loads[i].of = open,
         deeds' \subseteq deeds, \A d \in deeds' : d.at = "post" => d.on = open
  PROVE  TimelineInv'
<1>0. TimelineTypeOK /\ ListsUsed /\ OfThePost /\ Used \subseteq Used'
  BY StayUsed DEF TimelineInv
<1>1. loads \in Seq(Loading) /\ open \in {0} \cup PostId /\ TRUE \in BOOLEAN
  BY <1>0 DEF TimelineTypeOK, Used
<1>2. Fit(loads, Used, open)
  BY <1>0 DEF ListsUsed, Fit
<1>3. loads' \in Seq(Loading) /\ Fit(loads', Used', open)
  BY <1>0, <1>1, <1>2, LoadedKept
<1>4. TimelineTypeOK'
  BY <1>0, <1>3 DEF TimelineTypeOK
<1>5. ListsUsed' /\ OfThePost'
  BY <1>0, <1>3 DEF ListsUsed, OfThePost, Fit
<1>6. CASE open = 0
  <2>1. ListRight'
    BY <1>1, <1>6, ListAsked
  <2> QED
    BY <1>4, <1>5, <1>6, <2>1 DEF TimelineInv, WallRight
<1>7. CASE open # 0
  <2>1. open \in PostId /\ posts'[open] # None
    BY <1>7 DEF Used
  <2>2. PostRight(open)'
    BY <1>1, <2>1, PostAsked
  <2>3. WallRight'
    BY <1>7, <2>2 DEF WallRight, PostRight, LoadsOf
  <2> QED
    BY <1>4, <1>5, <2>3 DEF TimelineInv
<1> QED
  BY <1>6, <1>7

\* A profile, the moments and the timeline close only themselves.
LEMMA LeaveOwn ==
  /\ ProfileNext /\ page' # page => page \in {Elsewhere, "user"}
  /\ MomentsNext /\ page' # page => page \in {Elsewhere, "moments"}
  /\ TimelineNext /\ page' # page => page \in {Elsewhere, "timeline"}
<1>1. ProfileNext /\ page' # page => page \in {Elsewhere, "user"}
  BY DEF ProfileNext, OpenProfile, LeaveProfile, PrivacyArrives, Errand, HandleTogglePrivacy, SaveRemark,
     HandleReport, HandleBlock, HandleUnblock, ErrandDone, ErrandFails
<1>2. MomentsNext /\ page' # page => page \in {Elsewhere, "moments"}
  BY DEF MomentsNext, InMoments, OpenMoments, LeaveMoments, ComposeMoment, PublishMoment, OthersMoments,
     MomentsArrive, MomentsLost, ToggleLike, SubmitComment, DeleteMoment, ReportMoment, AskMoment, MomentAnswer,
     MomentFails, MomentPublished, MomentNotPublished
<1>3. TimelineNext /\ page' # page => page \in {Elsewhere, "timeline"}
  BY DEF TimelineNext, InTimeline, OpenTimeline, LeaveTimeline, BackToPosts, OthersPost, OpenPost, Arrives,
     LoadFails, LikePost, CommentPost, DeletePost, ReportPost, Deed, DeedDone, DeedFails, ComposePost, PublishPost,
     PostPublished, PostNotPublished
<1> QED
  BY <1>1, <1>2, <1>3

\* A deed is answered.
LEMMA DeedKeepsTimeline ==
  ASSUME TimelineInv, NEW d \in deeds, DeedDone(d)
  PROVE  TimelineInv'
<1>0. TimelineTypeOK /\ ListsUsed /\ OfThePost
  BY DEF TimelineInv
<1>1. d.on \in PostId /\ d.kind \in Kinds /\ d.at \in {"post", "page", "gone"}
  BY <1>0 DEF TimelineTypeOK
<1>2. /\ posts' = Acted(posts, d) /\ UNCHANGED <<page, saved>> /\ missed' = (missed \/ d.at # "post")
  BY DEF DeedDone, InTimeline
<1>3. /\ posts' \in Table(PostId) /\ \A p \in PostId : posts[p] # None => posts'[p] # None
      /\ d.kind = "report" => posts' = posts
  BY <1>0, <1>1, <1>2, ActsOnRow DEF TimelineTypeOK
<1>4. missed' \in BOOLEAN /\ (d.at # "post" => missed' = TRUE)
  BY <1>2
<1>5. deeds \ {d} \subseteq [kind : Kinds, on : PostId, at : {"post", "page", "gone"}]
  BY <1>0 DEF TimelineTypeOK
<1>6. CASE d.kind = "report" /\ UNCHANGED <<wall, loads>> /\ deeds' = deeds \ {d}
  <2>1. CASE d.at = "post"
    <3>1. missed' = missed
      BY <1>0, <1>2, <2>1 DEF TimelineTypeOK
    <3>2. \A e \in deeds' : e.at = "post" => e.on = wall.open
      BY <1>0, <1>6 DEF OfThePost
    <3>3. page' = "timeline" <=> page = "timeline"
      BY <1>2
    <3> QED
      BY <1>2, <1>3, <1>5, <1>6, <3>1, <3>2, <3>3, TimelineKept
  <2>2. CASE d.at # "post"
    <3>1. deeds' \subseteq deeds
      BY <1>6
    <3> QED
      BY <1>2, <1>3, <1>4, <1>6, <2>2, <3>1, AwayKeepsTimeline
  <2> QED
    BY <2>1, <2>2
<1>7. CASE ToList /\ deeds' = Unmounted(deeds \ {d})
  <2>1. deeds \ {d} \in SUBSET deeds
    OBVIOUS
  <2> QED
    BY <1>2, <1>3, <1>4, <1>7, <2>1, BackKeepsTimeline
<1>8. ASSUME NEW p \in {0} \cup PostId, UNCHANGED wall, Load(loads, p, FALSE), deeds' = deeds \ {d}, d.at # "post"
      PROVE  TimelineInv'
  <2>1. deeds' \subseteq deeds
    BY <1>8
  <2> QED
    BY <1>2, <1>3, <1>4, <1>8, <2>1, AwayKeepsTimeline
<1>9. CASE /\ d.at = "post" /\ wall' = [wall EXCEPT !.post = saved.post[d.on]]
          /\ Load(loads, d.on, TRUE) /\ deeds' = deeds \ {d}
  <2>1. /\ d.on = wall.open /\ d.on # 0
    BY <1>0, <1>1, <1>9, PostAssumption DEF OfThePost
  <2>2. wall \in WallType /\ saved.post[d.on] \in {None} \cup PostRow
    BY <1>0, <1>1 DEF TimelineTypeOK, Table
  <2>3. wall' \in WallType /\ wall'.open = wall.open /\ wall'.list = wall.list
    BY <1>9, <2>2 DEF WallType
  <2>4. /\ DOMAIN wall'.list \subseteq Used /\ d.on \in {0} \cup Used /\ wall'.open = d.on
        /\ (d.on = 0 => wall'.post = None) /\ (page' # "timeline" => d.on = 0)
        /\ \A i \in DOMAIN loads : loads[i].here /\ loads[i].of # 0 => loads[i].of = d.on
        /\ deeds' \subseteq deeds /\ \A e \in deeds' : e.at = "post" => e.on = d.on
    BY <1>0, <1>2, <1>9, <2>1, <2>3 DEF ListsUsed, OfThePost
  <2> QED
    BY <1>2, <1>3, <1>4, <1>9, <2>3, <2>4, AskKeepsTimeline
<1>10. CASE d.kind \notin {"report", "delete"}
  <2>1. /\ wall' = IF d.at = "post" THEN [wall EXCEPT !.post = saved.post[d.on]] ELSE wall
        /\ Load(loads, d.on, d.at = "post") /\ deeds' = deeds \ {d}
    BY <1>10 DEF DeedDone
  <2>2. CASE d.at = "post"
    <3>1. Load(loads, d.on, TRUE)
      BY <2>1, <2>2 DEF Load
    <3> QED
      BY <1>9, <2>1, <2>2, <3>1
  <2>3. CASE d.at # "post"
    <3>1. Load(loads, d.on, FALSE) /\ UNCHANGED wall
      BY <2>1, <2>3 DEF Load
    <3> QED
      BY <1>1, <1>8, <2>1, <2>3, <3>1
  <2> QED
    BY <2>2, <2>3
<1>11. CASE d.kind = "delete" /\ d.at = "gone"
  BY <1>8, <1>11 DEF DeedDone
<1>12. CASE d.kind = "delete" /\ d.at # "gone"
  BY <1>7, <1>12 DEF DeedDone
<1>13. CASE d.kind = "report"
  BY <1>6, <1>13 DEF DeedDone
<1> QED
  BY <1>10, <1>11, <1>12, <1>13

\* A post is published for the list, which the page asks for unless it closed.
LEMMA PublishingKeepsTimeline ==
  ASSUME TimelineInv, NEW p \in sending, PostPublished(p)
  PROVE  TimelineInv'
<1>0. TimelineTypeOK /\ ListsUsed /\ OfThePost
  BY DEF TimelineInv
<1>1. /\ posts' = Added(posts, PostId, Me) /\ Free(posts, PostId) # {}
      /\ UNCHANGED <<page, wall, saved, deeds>>
      /\ Load(loads, 0, p.at # "gone") /\ missed' = (missed \/ p.at = "gone")
  BY DEF PostPublished, InTimeline
<1>2. posts' \in Table(PostId) /\ \A q \in PostId : posts[q] # None => posts'[q] = posts[q]
  <2>1. PostId \in SUBSET Nat
    BY PostAssumption
  <2> QED
    BY <1>0, <1>1, <2>1, AddedRow, MeAssumption DEF TimelineTypeOK
<1>3. \A q \in PostId : posts[q] # None => posts'[q] # None
  BY <1>2
<1>4. CASE p.at = "gone"
  <2>1. Load(loads, 0, FALSE) /\ missed' = TRUE /\ deeds' \subseteq deeds
    BY <1>1, <1>4 DEF Load
  <2> QED
    BY <1>1, <1>2, <1>3, <2>1, AwayKeepsTimeline
<1>5. CASE p.at # "gone"
  <2>1. Load(loads, 0, TRUE) /\ missed' = missed
    BY <1>0, <1>1, <1>5 DEF Load, TimelineTypeOK
  <2>2. CASE wall.open = 0
    <3>1. /\ wall' \in WallType /\ DOMAIN wall'.list \subseteq Used /\ 0 \in {0} \cup Used /\ wall'.open = 0
          /\ (0 = 0 => wall'.post = None) /\ (page' # "timeline" => 0 = 0) /\ missed' \in BOOLEAN
          /\ \A i \in DOMAIN loads : loads[i].here /\ loads[i].of # 0 => loads[i].of = 0
          /\ deeds' \subseteq deeds /\ \A e \in deeds' : e.at = "post" => e.on = 0
      BY <1>0, <1>1, <2>1, <2>2 DEF TimelineTypeOK, ListsUsed, OfThePost
    <3> QED
      BY <1>1, <1>2, <1>3, <2>1, <3>1, AskKeepsTimeline
  <2>3. CASE wall.open # 0
    <3>0. PICK open \in PostId : open = wall.open /\ posts[open] # None /\ posts'[open] = posts[open] /\ open # 0
      BY <1>0, <1>2, <2>3 DEF ListsUsed, Used
    <3>1. loads \in Seq(Loading) /\ 0 \in {0} \cup PostId /\ TRUE \in BOOLEAN /\ Used \subseteq Used'
      BY <1>0, <1>3, StayUsed DEF TimelineTypeOK
    <3>2. Fit(loads, Used, open)
      BY <1>0, <3>0 DEF ListsUsed, OfThePost, Fit
    <3>3. loads' \in Seq(Loading) /\ Fit(loads', Used', open)
      BY <1>2, <2>1, <3>1, <3>2, LoadedKept
    <3>4. TimelineTypeOK'
      BY <1>0, <1>1, <1>2, <2>1, <3>3 DEF TimelineTypeOK
    <3>5. ListsUsed' /\ OfThePost'
      BY <1>0, <1>1, <3>0, <3>1, <3>3 DEF ListsUsed, OfThePost, Fit
    <3>6. ASSUME page = "timeline", ~missed, posts[open] # Tombstone
          PROVE  ShownLast(LoadsOf(open)', PostSeen', wall.post, posts[open])
      <4> DEFINE n == Len(loads)
      <4>1. /\ n \in Nat /\ DOMAIN loads = 1..n /\ Len(loads') = n + 1
            /\ \A i \in 1..n : loads'[i] = loads[i]
            /\ loads'[n + 1].of = 0
        <5>1. n \in Nat /\ DOMAIN loads = 1..n
          BY <3>1
        <5> HIDE DEF n
        <5>2. /\ Len(loads') = n + 1 /\ \A i \in 1..n : loads'[i] = loads[i]
              /\ loads'[n + 1].of = 0
          BY <1>2, <2>1, <3>1, Loaded DEF n
        <5> QED
          BY <5>1, <5>2
      <4>2. DOMAIN loads' = 1..n + 1
        BY <3>3, <4>1
      <4> HIDE DEF n
      <4>3. LoadsOf(open) \in SUBSET (1..n) /\ LoadsOf(open)' = LoadsOf(open)
        BY <3>0, <4>1, <4>2 DEF LoadsOf
      <4>4. \A i \in 1..n : PostSeen'[i] = PostSeen[i]
        BY <4>1, <4>2 DEF PostSeen
      <4>5. ShownLast(LoadsOf(open), PostSeen, wall.post, posts[open])
        BY <2>3, <3>0, <3>6 DEF TimelineInv, WallRight, PostRight
      <4>6. \/ LoadsOf(open)' = LoadsOf(open) \cup {n + 1} /\ PostSeen'[n + 1] = posts[open]
            \/ LoadsOf(open)' = LoadsOf(open) /\ ShownLast(LoadsOf(open), PostSeen, wall.post, posts[open])
        BY <4>3, <4>5
      <4> QED
        BY <4>1, <4>3, <4>4, <4>6, EndsAppended
    <3>7. page = "timeline" /\ ~missed => PostRight(open)'
      BY <1>1, <3>0, <3>6 DEF PostRight
    <3>8. WallRight'
      BY <1>1, <2>1, <3>0, <3>7 DEF WallRight, PostRight, LoadsOf
    <3> QED
      BY <3>4, <3>5, <3>8 DEF TimelineInv
  <2> QED
    BY <2>2, <2>3
<1> QED
  BY <1>4, <1>5

\* What the page of the timeline shows stays right.
LEMMA TimelineStep == TimelineInv /\ [SocialNext]_socialVars => TimelineInv'
<1> SUFFICES ASSUME TimelineInv, [SocialNext]_socialVars PROVE TimelineInv'
  OBVIOUS
<1> USE PostAssumption, MeAssumption
<1>0. TimelineTypeOK /\ ListsUsed /\ OfThePost
  BY DEF TimelineInv
<1>1. ASSUME UNCHANGED wallVars, page' = "timeline" <=> page = "timeline" PROVE TimelineInv'
  <2>1. UNCHANGED <<posts, wall, saved, loads, deeds, missed>>
    BY <1>1 DEF wallVars
  <2>2. /\ deeds' \subseteq [kind : Kinds, on : PostId, at : {"post", "page", "gone"}]
        /\ \A d \in deeds' : d.at = "post" => d.on = wall.open
    BY <1>0, <2>1 DEF TimelineTypeOK, OfThePost
  <2> QED
    BY <1>1, <2>1, <2>2, TimelineKept
<1>2. CASE UNCHANGED socialVars
  BY <1>1, <1>2 DEF socialVars
<1>3. CASE (ContactsNext \/ GroupNext) /\ TimelineStays
  <2>1. page' # page => page' # "timeline"
    BY <1>3, Turns DEF Elsewhere
  <2> QED
    BY <1>1, <1>3, <2>1, ClosingKeepsTimeline DEF TimelineStays
<1>4. CASE (ProfileNext \/ MomentsNext) /\ UNCHANGED wallVars
  <2>1. page' = "timeline" <=> page = "timeline"
    BY <1>4, Turns, LeaveOwn DEF Elsewhere
  <2> QED
    BY <1>1, <1>4, <2>1
<1>5. CASE TimelineNext
  <2> USE DEF InTimeline
  <2>1. CASE OpenTimeline
    <3>1. /\ UNCHANGED <<posts, saved, deeds>> /\ wall' = [NoWall EXCEPT !.list = saved.list] /\ missed' = FALSE
          /\ Load(loads, 0, TRUE) /\ page = Elsewhere /\ page' = "timeline"
      BY <2>1 DEF OpenTimeline
    <3>2. /\ wall' \in WallType /\ wall'.open = 0 /\ wall'.post = None /\ wall'.list = saved.list
      BY <1>0, <3>1 DEF TimelineTypeOK, WallType, NoWall
    <3>3. wall.open = 0
      BY <1>0, <3>1 DEF OfThePost, Elsewhere
    <3>4. /\ posts' \in Table(PostId) /\ \A p \in PostId : posts[p] # None => posts'[p] # None
          /\ DOMAIN wall'.list \subseteq Used /\ 0 \in {0} \cup Used
          /\ (0 = 0 => wall'.post = None) /\ (page' # "timeline" => 0 = 0) /\ missed' \in BOOLEAN
          /\ \A i \in DOMAIN loads : loads[i].here /\ loads[i].of # 0 => loads[i].of = 0
          /\ deeds' \subseteq deeds /\ \A e \in deeds' : e.at = "post" => e.on = 0
      BY <1>0, <3>1, <3>2, <3>3 DEF TimelineTypeOK, ListsUsed, OfThePost
    <3> QED
      BY <3>1, <3>2, <3>4, AskKeepsTimeline
  <2>2. CASE LeaveTimeline
    BY <2>2, ClosingKeepsTimeline DEF LeaveTimeline, Elsewhere
  <2>3. CASE BackToPosts
    <3>1. /\ UNCHANGED <<posts, saved>> /\ ToList /\ deeds' = Unmounted(deeds) /\ missed' \in BOOLEAN
      BY <1>0, <2>3 DEF BackToPosts, TimelineTypeOK
    <3>2. posts' \in Table(PostId) /\ deeds \in SUBSET deeds /\ \A p \in PostId : posts[p] # None => posts'[p] # None
      BY <1>0, <3>1 DEF TimelineTypeOK
    <3> QED
      BY <3>1, <3>2, BackKeepsTimeline
  <2>4. CASE OthersPost
    <3>1. PICK p \in PostId, u \in User \ {Me} :
             \/ Free(posts, PostId) # {} /\ posts' = Added(posts, PostId, u)
             \/ There(posts[p]) /\ posts[p].by = u /\ posts' = [posts EXCEPT ![p] = Tombstone]
      BY <2>4 DEF OthersPost
    <3>2. posts' \in Table(PostId) /\ \A q \in PostId : posts[q] # None => posts'[q] # None
      <4>1. Tombstone \in PostRow
        BY DEF Tombstone, New, PostRow
      <4>2. Tombstone # None
        BY <4>1, NoPostAssumption DEF PostRow
      <4>3. PostId \in SUBSET Nat
        OBVIOUS
      <4>4. CASE Free(posts, PostId) # {} /\ posts' = Added(posts, PostId, u)
        BY <1>0, <4>3, <4>4, AddedRow DEF TimelineTypeOK
      <4>5. CASE posts' = [posts EXCEPT ![p] = Tombstone]
        BY <1>0, <4>1, <4>2, <4>5 DEF TimelineTypeOK, Table
      <4> QED
        BY <3>1, <4>4, <4>5
    <3>3. missed' = TRUE /\ UNCHANGED <<page, wall, saved, loads, deeds>> /\ deeds' \subseteq deeds
      BY <2>4 DEF OthersPost
    <3> QED
      BY <3>2, <3>3, AwayKeepsTimeline
  <2>5. ASSUME NEW p \in PostId, OpenPost(p) PROVE TimelineInv'
    <3>1. /\ UNCHANGED <<page, posts, saved, deeds, missed>> /\ wall' = [wall EXCEPT !.open = p, !.post = saved.post[p]]
          /\ Load(loads, p, TRUE) /\ page = "timeline" /\ wall.open = 0 /\ p \in DOMAIN wall.list
      BY <2>5 DEF OpenPost, OnWall
    <3>2. /\ wall' \in WallType /\ wall'.open = p /\ wall'.list = wall.list
      BY <1>0, <3>1 DEF TimelineTypeOK, WallType, Table
    <3>3. p # 0 /\ p \in Used
      BY <1>0, <3>1 DEF ListsUsed
    <3>4. /\ posts' \in Table(PostId) /\ \A q \in PostId : posts[q] # None => posts'[q] # None
          /\ DOMAIN wall'.list \subseteq Used /\ p \in {0} \cup Used
          /\ (p = 0 => wall'.post = None) /\ (page' # "timeline" => p = 0) /\ missed' \in BOOLEAN
          /\ \A i \in DOMAIN loads : loads[i].here /\ loads[i].of # 0 => loads[i].of = p
          /\ deeds' \subseteq deeds /\ \A e \in deeds' : e.at = "post" => e.on = p
      BY <1>0, <3>1, <3>2, <3>3 DEF TimelineTypeOK, ListsUsed, OfThePost
    <3> QED
      BY <3>1, <3>2, <3>4, AskKeepsTimeline
  <2>6. ASSUME NEW i \in DOMAIN loads, Arrives(i) \/ LoadFails(i) PROVE TimelineInv'
    BY <2>6, ArrivalKeepsTimeline, LossKeepsTimeline
  <2>7. ASSUME NEW kind \in Kinds, Deed(kind) PROVE TimelineInv'
    <3>1. /\ UNCHANGED <<page, posts, wall, saved, loads, missed>> /\ wall.post # None
          /\ deeds' = deeds \cup {[kind |-> kind, on |-> wall.open, at |-> "post"]}
      BY <2>7 DEF Deed, OnPost
    <3>2. wall.open \in PostId
      BY <1>0, <3>1 DEF OfThePost, TimelineTypeOK, WallType
    <3>3. [kind |-> kind, on |-> wall.open, at |-> "post"] \in [kind : Kinds, on : PostId, at : {"post", "page", "gone"}]
      BY <3>2
    <3>4. /\ deeds' \subseteq [kind : Kinds, on : PostId, at : {"post", "page", "gone"}]
          /\ \A d \in deeds' : d.at = "post" => d.on = wall.open
      BY <1>0, <3>1, <3>3 DEF TimelineTypeOK, OfThePost
    <3>5. page' = "timeline" <=> page = "timeline"
      BY <3>1
    <3> QED
      BY <3>1, <3>4, <3>5, TimelineKept
  <2>8. CASE LikePost \/ CommentPost \/ DeletePost \/ ReportPost
    BY <2>7, <2>8 DEF LikePost, CommentPost, DeletePost, ReportPost, Kinds
  <2>9. ASSUME NEW d \in deeds, DeedFails(d) PROVE TimelineInv'
    <3>1. /\ UNCHANGED <<page, wall, saved, loads>> /\ deeds' = deeds \ {d} /\ deeds' \subseteq deeds
          /\ UNCHANGED <<posts, missed>> \/ (posts' = Acted(posts, d) /\ missed' = TRUE)
      BY <2>9 DEF DeedFails
    <3>2. CASE UNCHANGED <<posts, missed>>
      <4>1. /\ deeds' \subseteq [kind : Kinds, on : PostId, at : {"post", "page", "gone"}]
            /\ \A e \in deeds' : e.at = "post" => e.on = wall.open
        BY <1>0, <3>1 DEF TimelineTypeOK, OfThePost
      <4>2. page' = "timeline" <=> page = "timeline"
        BY <3>1
      <4> QED
        BY <3>1, <3>2, <4>1, <4>2, TimelineKept
    <3>3. CASE posts' = Acted(posts, d) /\ missed' = TRUE
      <4>1. d.on \in PostId /\ d.kind \in Kinds
        BY <1>0 DEF TimelineTypeOK
      <4>2. posts' \in Table(PostId) /\ \A p \in PostId : posts[p] # None => posts'[p] # None
        BY <1>0, <3>3, <4>1, ActsOnRow DEF TimelineTypeOK
      <4> QED
        BY <3>1, <3>3, <4>2, AwayKeepsTimeline
    <3> QED
      BY <3>1, <3>2, <3>3
  <2>10. CASE \/ ComposePost \/ PublishPost
              \/ \E p \in sending : PostNotPublished(p)
    <3>1. UNCHANGED wallVars /\ page' = page
      BY <2>10 DEF ComposePost, PublishPost, PostNotPublished
    <3>2. page' = "timeline" <=> page = "timeline"
      BY <3>1
    <3> QED
      BY <1>1, <3>1, <3>2
  <2> QED
    BY <1>5, <2>1, <2>2, <2>3, <2>4, <2>5, <2>6, <2>8, <2>9, <2>10, DeedKeepsTimeline, PublishingKeepsTimeline
       DEF TimelineNext
<1> QED
  BY <1>2, <1>3, <1>4, <1>5 DEF SocialNext

-----------------------------------------------------------------------------
(* The page of a group.                                                    *)

Keys == {"id", "shown", "generation", "revision", "refreshing", "error", "trust", "checks", "muted", "editing",
         "picked", "inviting", "code"}
Counted(s) == /\ DOMAIN s = Keys
              /\ s.generation \in Nat /\ s.revision \in Nat /\ s.trust \in Nat /\ s.checks \in Nat
              /\ s.refreshing \in BOOLEAN /\ s.editing \in {None, "name", "notice"}
              /\ s.trust <= s.checks

\* A request is known by its kind; a reload is the last check that started, and a check
\* counts as long as neither a reload nor another check started.
Current(w, s) ==
  IF Request(w) THEN DOMAIN w = {"kind", "on", "who", "here"}
  ELSE /\ DOMAIN w = {"kind", "on", "no", "muted", "generation", "revision"}
       /\ w.no \in Nat /\ w.generation \in Nat /\ w.revision \in Nat
       /\ w.no <= s.checks /\ w.generation <= s.generation /\ w.revision <= s.revision
       /\ IF w.kind = "check"
          THEN w.generation = s.generation /\ w.revision = s.revision => ~s.refreshing /\ w.no = s.checks
          ELSE s.refreshing /\ w.no = s.checks

Reloads(w) == w.kind \in {"detail", "trust"}
Sound(s, pending) == /\ Counted(s)
                     /\ \A w \in pending : Current(w, s)
                     /\ \A v, w \in pending : Reloads(v) /\ Reloads(w) => v = w

GroupInv == /\ Sound(group, work)
            /\ page # "group" => group = NoGroup /\ \A w \in work : Request(w) /\ w.here = FALSE

\* What a reload starts from, and what it leaves alone.
Same(s, t) == /\ Counted(s) /\ Counted(t) /\ t.id = s.id
              /\ t.generation = s.generation /\ t.revision = s.revision
              /\ t.trust = s.trust /\ t.checks = s.checks /\ t.refreshing = s.refreshing

\* What ends, or what only shows something else, leaves the rest in order.
LEMMA SoundKept ==
  ASSUME NEW s, NEW t, NEW P, NEW Q, Sound(s, P), Same(s, t), \A w \in Q : w \in P \/ (Request(w) /\ Current(w, t))
  PROVE  Sound(t, Q)
<1>1. \A w \in P : Current(w, t)
  BY DEF Sound, Current, Same
<1>2. \A v, w \in Q : Reloads(v) /\ Reloads(w) => v = w
  BY DEF Sound, Reloads, Request
<1> QED
  BY <1>1, <1>2 DEF Sound, Same

\* A reload starts, unless one is under way.
LEMMA ReloadSound ==
  ASSUME NEW state, NEW pending, Sound(state, pending), Reload(state, pending)
  PROVE  Sound(group', work') /\ group'.id = state.id /\ group'.trust = state.trust
<1>1. CASE state.refreshing
  BY <1>1 DEF Reload
<1>2. CASE ~state.refreshing
  <2> DEFINE t == [state EXCEPT !.generation = @ + 1, !.revision = @ + 1, !.checks = @ + 1,
                                !.refreshing = TRUE, !.error = FALSE]
             new == TrustCheck(state, "detail", state.generation + 1, 0)
  <2>1. /\ DOMAIN t = Keys /\ t.id = state.id /\ t.trust = state.trust /\ t.editing = state.editing
        /\ t.generation = state.generation + 1 /\ t.revision = state.revision + 1 /\ t.checks = state.checks + 1
        /\ t.refreshing = TRUE
    BY DEF Sound, Counted, Keys
  <2>2. /\ DOMAIN new = {"kind", "on", "no", "muted", "generation", "revision"} /\ new.kind = "detail"
        /\ new.no = state.checks + 1 /\ new.generation = state.generation + 1 /\ new.revision = 0
    BY DEF TrustCheck
  <2>3. group' = t /\ work' = pending \cup {new}
    BY <1>2 DEF Reload
  <2> HIDE DEF t, new
  <2>4. Counted(t)
    <3>1. Counted(state)
      BY DEF Sound
    <3>2. state.generation + 1 \in Nat /\ state.revision + 1 \in Nat /\ state.checks + 1 \in Nat
          /\ state.trust <= state.checks + 1 /\ TRUE \in BOOLEAN
      BY <3>1 DEF Counted
    <3> QED
      BY <2>1, <3>1, <3>2 DEF Counted
  <2>5. Current(new, t) /\ Reloads(new)
    BY <2>1, <2>2 DEF Current, Sound, Counted, Reloads, Request
  <2>6. \A w \in pending : Current(w, t) /\ ~Reloads(w)
    <3> SUFFICES ASSUME NEW w \in pending PROVE Current(w, t) /\ ~Reloads(w)
      OBVIOUS
    <3>1. Current(w, state) /\ Counted(state)
      BY DEF Sound
    <3> QED
      BY <1>2, <2>1, <3>1 DEF Current, Counted, Reloads, Request
  <2> QED
    BY <2>1, <2>3, <2>4, <2>5, <2>6 DEF Sound
<1> QED
  BY <1>1, <1>2

\* The page closes: only requests go on.
LEMMA ClosedSound ==
  ASSUME NEW pending \in SUBSET work, Sound(group, work), CloseGroup(pending)
  PROVE  Sound(group', work') /\ group' = NoGroup /\ (\A w \in work' : Request(w) /\ w.here = FALSE)
<1>1. group' = NoGroup /\ work' = {[w EXCEPT !.here = FALSE] : w \in {k \in pending : Request(k)}}
  BY DEF CloseGroup
<1>2. Counted(NoGroup)
  BY DEF Counted, NoGroup, Keys
<1>3. ASSUME NEW w \in pending, Request(w)
      PROVE  /\ Request([w EXCEPT !.here = FALSE]) /\ Current([w EXCEPT !.here = FALSE], NoGroup)
             /\ [w EXCEPT !.here = FALSE].here = FALSE
  <2>1. DOMAIN w = {"kind", "on", "who", "here"}
    BY <1>3 DEF Sound, Current
  <2>2. Request([w EXCEPT !.here = FALSE]) /\ [w EXCEPT !.here = FALSE].here = FALSE /\ DOMAIN [w EXCEPT !.here = FALSE] = {"kind", "on", "who", "here"}
    BY <1>3, <2>1 DEF Request
  <2> QED
    BY <2>2 DEF Current
<1>4. \A w \in work' : Request(w) /\ Current(w, NoGroup) /\ w.here = FALSE
  BY <1>1, <1>3
<1> QED
  BY <1>1, <1>2, <1>4 DEF Sound, Reloads, Request

\* What stays on the page, or is done on it.
LEMMA StaysSound ==
  ASSUME GroupInv, Same(group, group'), page' = page, page = "group",
         \A w \in work' : w \in work \/ (Request(w) /\ Current(w, group'))
  PROVE  GroupInv' /\ group'.trust >= group.trust
<1>1. Sound(group', work')
  BY SoundKept DEF GroupInv
<1> QED
  BY <1>1 DEF GroupInv, Same, Counted

\* A request of the page.
LEMMA AskKeepsGroup ==
  ASSUME GroupInv, NEW kind, NEW who, kind \notin {"detail", "trust", "check"}, OnGroup, Ask(kind, who),
         Same(group, group')
  PROVE  GroupInv' /\ group'.trust >= group.trust
<1> DEFINE new == [kind |-> kind, on |-> group.id, who |-> who, here |-> TRUE]
<1>1. work' = work \cup {new} /\ page' = page /\ page = "group"
  BY DEF Ask, OnGroup
<1>2. Request(new) /\ Current(new, group')
  BY DEF Request, Current
<1> QED
  BY <1>1, <1>2, StaysSound

LEMMA NothingNew == ASSUME GroupInv PROVE Same(group, group)
BY DEF GroupInv, Sound, Same

\* What the user does on the page.
LEMMA UserKeepsGroup ==
  ASSUME GroupInv,
         \/ CancelInvite \/ InviteFriends \/ SaveEdit \/ HandleAvatarChange \/ ToggleMute \/ ToggleCode
         \/ Disband \/ LeaveForGood
         \/ \E u \in User : ToggleFriend(u)
         \/ \E field \in {"name", "notice"} : Edit(field)
  PROVE  GroupInv' /\ group'.trust >= group.trust
<1>1. Counted(group)
  BY DEF GroupInv, Sound
<1>2. ASSUME CancelInvite \/ (\E u \in User : ToggleFriend(u)) \/ (\E field \in {"name", "notice"} : Edit(field))
      PROVE  Same(group, group') /\ work' = work /\ page' = page /\ page = "group"
  <2>1. /\ work' = work /\ page' = page /\ page = "group"
        /\ \/ CancelInvite
           \/ \E u \in User : ToggleFriend(u)
           \/ \E field \in {"name", "notice"} : Edit(field)
    BY <1>2 DEF CancelInvite, ToggleFriend, Edit, OnGroup, Local
  <2>2. CASE CancelInvite
    BY <1>1, <2>1, <2>2 DEF CancelInvite, Same, Counted, Keys
  <2>3. CASE \E u \in User : ToggleFriend(u)
    BY <1>1, <2>1, <2>3 DEF ToggleFriend, Same, Counted, Keys
  <2>4. ASSUME NEW field \in {"name", "notice"}, Edit(field) PROVE Same(group, group')
    BY <1>1, <2>4 DEF Edit, Same, Counted, Keys
  <2> QED
    BY <2>1, <2>2, <2>3, <2>4
<1>3. CASE CancelInvite \/ (\E u \in User : ToggleFriend(u)) \/ (\E field \in {"name", "notice"} : Edit(field))
  BY <1>2, <1>3, StaysSound
<1>4. CASE InviteFriends
  BY <1>4, AskKeepsGroup, NothingNew DEF InviteFriends
<1>5. CASE SaveEdit
  BY <1>1, <1>5, AskKeepsGroup, NothingNew DEF SaveEdit, Counted
<1>6. CASE HandleAvatarChange
  BY <1>6, AskKeepsGroup, NothingNew DEF HandleAvatarChange
<1>7. CASE ToggleMute
  BY <1>7, AskKeepsGroup, NothingNew DEF ToggleMute
<1>8. CASE ToggleCode
  <2>1. Same(group, group') /\ OnGroup
    BY <1>1, <1>8 DEF ToggleCode, Same, Counted, Keys
  <2>2. CASE group.code = "shown"
    BY <1>8, <2>1, <2>2, StaysSound DEF ToggleCode, OnGroup, Local
  <2>3. CASE group.code # "shown"
    BY <1>8, <2>1, <2>3, AskKeepsGroup DEF ToggleCode
  <2> QED
    BY <2>2, <2>3
<1>9. CASE Disband
  BY <1>9, AskKeepsGroup, NothingNew DEF Disband
<1>10. CASE LeaveForGood
  BY <1>10, AskKeepsGroup, NothingNew DEF LeaveForGood
<1> QED
  BY <1>3, <1>4, <1>5, <1>6, <1>7, <1>8, <1>9, <1>10

\* The detail arrives, and the trust in the members is read.
LEMMA DetailKeepsGroup ==
  ASSUME GroupInv, NEW w \in work, DetailAnswer(w) \/ TrustAnswer(w) \/ DetailFails(w)
  PROVE  GroupInv' /\ group'.trust >= group.trust
<1>1. /\ Counted(group) /\ (\A v \in work : Current(v, group))
      /\ \A u, v \in work : Reloads(u) /\ Reloads(v) => u = v
  BY DEF GroupInv, Sound
<1>2. /\ Reloads(w) /\ ~Request(w) /\ page = "group" /\ page' = page
      /\ group.refreshing /\ w.no = group.checks
      /\ DOMAIN w = {"kind", "on", "no", "muted", "generation", "revision"} /\ w.no \in Nat
      /\ w.generation \in Nat /\ w.revision \in Nat /\ w.generation <= group.generation /\ w.revision <= group.revision
  BY <1>1 DEF DetailAnswer, TrustAnswer, DetailFails, Local, Reloads, Request, Current, GroupInv
<1>3. \A v \in work \ {w} : ~Reloads(v)
  BY <1>1, <1>2
<1>4. CASE DetailAnswer(w)
  <2> DEFINE new == [w EXCEPT !.kind = "trust", !.muted = club[w.on].muted]
  <2>1. Same(group, group') /\ group'.refreshing = group.refreshing /\ work' = (work \ {w}) \cup {new}
    BY <1>1, <1>4 DEF DetailAnswer, Same, Counted, Keys
  <2>2. /\ new.kind = "trust" /\ DOMAIN new = DOMAIN w
        /\ new.no = w.no /\ new.generation = w.generation /\ new.revision = w.revision
    BY <1>2
  <2> HIDE DEF new
  <2>3. Current(new, group')
    BY <1>2, <2>1, <2>2 DEF Current, Request, Same
  <2>4. \A v \in work \ {w} : Current(v, group')
    BY <1>1, <2>1 DEF Current, Same
  <2>5. Sound(group', work')
    BY <1>3, <2>1, <2>3, <2>4 DEF Sound, Same
  <2> QED
    BY <1>2, <2>1, <2>5 DEF GroupInv, Same, Counted
<1>5. ASSUME TrustAnswer(w) \/ DetailFails(w)
      PROVE  /\ Counted(group') /\ group'.generation = group.generation /\ group'.revision = group.revision
             /\ group'.checks = group.checks /\ group'.trust >= group.trust /\ work' = work \ {w}
  <2>1. CASE TrustAnswer(w)
    <3>1. /\ DOMAIN group' = DOMAIN group /\ group'.trust = group.checks /\ group'.refreshing = FALSE
          /\ group'.generation = group.generation /\ group'.revision = group.revision
          /\ group'.checks = group.checks /\ group'.editing = group.editing /\ work' = work \ {w}
      BY <1>1, <1>2, <2>1 DEF TrustAnswer, Counted, Keys
    <3>2. group.trust <= group.checks /\ group.checks <= group.checks /\ group.checks \in Nat /\ FALSE \in BOOLEAN
      BY <1>1 DEF Counted
    <3> QED
      BY <1>1, <3>1, <3>2 DEF Counted
  <2>2. CASE DetailFails(w)
    <3>1. /\ DOMAIN group' = DOMAIN group /\ group'.trust = group.trust /\ group'.refreshing = FALSE
          /\ group'.generation = group.generation /\ group'.revision = group.revision
          /\ group'.checks = group.checks /\ group'.editing = group.editing /\ work' = work \ {w}
      BY <1>1, <1>2, <2>2 DEF DetailFails, Counted, Keys
    <3>2. FALSE \in BOOLEAN
      OBVIOUS
    <3>3. group'.trust \in Nat /\ group'.trust <= group'.checks /\ group'.trust >= group.trust
      BY <1>1, <3>1 DEF Counted
    <3> QED
      BY <1>1, <3>1, <3>2, <3>3 DEF Counted
  <2> QED
    BY <1>5, <2>1, <2>2
<1>6. CASE TrustAnswer(w) \/ DetailFails(w)
  <2>1. \A v \in work \ {w} : Current(v, group')
    <3> SUFFICES ASSUME NEW v \in work \ {w} PROVE Current(v, group')
      OBVIOUS
    <3> QED
      BY <1>1, <1>2, <1>3, <1>5, <1>6 DEF Current, Reloads, Request
  <2>2. Sound(group', work')
    BY <1>3, <1>5, <1>6, <2>1 DEF Sound
  <2> QED
    BY <1>2, <1>5, <1>6, <2>2 DEF GroupInv
<1> QED
  BY <1>4, <1>6

\* A check starts, or ends.
LEMMA CheckKeepsGroup ==
  ASSUME GroupInv, TrustChanged \/ \E w \in work : Checked(w)
  PROVE  GroupInv' /\ group'.trust >= group.trust
<1>1. /\ Counted(group) /\ (\A v \in work : Current(v, group))
      /\ \A u, v \in work : Reloads(u) /\ Reloads(v) => u = v
  BY DEF GroupInv, Sound
<1>2. CASE TrustChanged
  <2> DEFINE new == TrustCheck(group, "check", group.generation, group.revision + 1)
  <2>1. /\ page = "group" /\ page' = page /\ ~group.refreshing /\ work' = work \cup {new}
        /\ DOMAIN group' = DOMAIN group /\ group'.trust = group.trust /\ group'.refreshing = group.refreshing
        /\ group'.generation = group.generation /\ group'.revision = group.revision + 1
        /\ group'.checks = group.checks + 1 /\ group'.editing = group.editing
    BY <1>1, <1>2 DEF TrustChanged, OnGroup, Counted, Keys
  <2>2. /\ DOMAIN new = {"kind", "on", "no", "muted", "generation", "revision"} /\ new.kind = "check"
        /\ new.no = group.checks + 1 /\ new.generation = group.generation /\ new.revision = group.revision + 1
    BY DEF TrustCheck
  <2> HIDE DEF new
  <2>3. Counted(group')
    <3>1. group.revision + 1 \in Nat /\ group.checks + 1 \in Nat /\ group.trust <= group.checks + 1
      BY <1>1 DEF Counted
    <3> QED
      BY <1>1, <2>1, <3>1 DEF Counted
  <2>4. Current(new, group') /\ ~Reloads(new)
    BY <1>1, <2>1, <2>2 DEF Current, Counted, Reloads, Request
  <2>5. \A v \in work : Current(v, group') /\ ~Reloads(v)
    <3> SUFFICES ASSUME NEW v \in work PROVE Current(v, group') /\ ~Reloads(v)
      OBVIOUS
    <3>1. Current(v, group)
      BY <1>1
    <3> QED
      BY <1>1, <2>1, <3>1 DEF Current, Counted, Reloads, Request
  <2>6. Sound(group', work')
    BY <2>1, <2>3, <2>4, <2>5 DEF Sound
  <2> QED
    BY <1>1, <2>1, <2>6 DEF GroupInv, Counted
<1>3. ASSUME NEW w \in work, Checked(w)
      PROVE  GroupInv' /\ group'.trust >= group.trust
  <2>1. w.kind = "check" /\ Current(w, group) /\ work' = work \ {w} /\ page' = page /\ page = "group"
    BY <1>1, <1>3 DEF Checked, Local, GroupInv, Request
  <2>2. /\ DOMAIN group' = DOMAIN group /\ group'.refreshing = group.refreshing
        /\ group'.generation = group.generation /\ group'.revision = group.revision
        /\ group'.checks = group.checks /\ group'.editing = group.editing
        /\ group'.trust \in {group.trust, group.checks}
    BY <1>1, <1>3, <2>1 DEF Checked, Counted, Keys, Current, Request
  <2>3. Counted(group') /\ group'.trust >= group.trust
    BY <1>1, <2>2 DEF Counted
  <2>4. \A v \in work : Current(v, group')
    BY <1>1, <2>2 DEF Current
  <2>5. Sound(group', work')
    BY <1>1, <2>1, <2>3, <2>4 DEF Sound
  <2> QED
    BY <2>1, <2>3, <2>5 DEF GroupInv
<1> QED
  BY <1>2, <1>3

\* What an answer shows on the page is none of this.
LEMMA ShownSame == ASSUME NEW w, Counted(group) PROVE Same(group, Shown(w))
<1>1. ASSUME NEW t, t = Shown(w)
      PROVE  /\ DOMAIN t = DOMAIN group /\ t.id = group.id /\ t.generation = group.generation
             /\ t.revision = group.revision /\ t.trust = group.trust /\ t.checks = group.checks
             /\ t.refreshing = group.refreshing /\ t.editing \in {None, "name", "notice"}
  BY <1>1 DEF Shown, Counted, Keys
<1> QED
  BY <1>1 DEF Same, Counted

\* A request ends.
LEMMA AnswerKeepsGroup ==
  ASSUME GroupInv, NEW w \in work, Served(w) \/ RequestFails(w)
  PROVE  GroupInv' /\ group'.id = group.id /\ group'.trust >= group.trust
<1>1. Counted(group) /\ Sound(group, work) /\ page' = page /\ Request(w)
  BY DEF GroupInv, Sound, Served, RequestFails
<1>2. CASE Same(group, group') /\ work' = work \ {w}
  <2>1. Sound(group', work')
    BY <1>1, <1>2, SoundKept
  <2>2. page # "group" => group' = group
    <3> SUFFICES ASSUME page # "group" PROVE group' = group
      OBVIOUS
    <3>1. w.here = FALSE
      BY DEF GroupInv
    <3> QED
      BY <3>1 DEF Served, RequestFails
  <2> QED
    BY <1>1, <1>2, <2>1, <2>2 DEF GroupInv, Same, Counted
<1>3. CASE RequestFails(w)
  <2>1. Same(group, group') /\ work' = work \ {w}
    BY <1>1, <1>3 DEF RequestFails, Same, Counted, Keys
  <2> QED
    BY <1>2, <2>1
<1>4. CASE Served(w) /\ w.here /\ w.kind = "invite"
  <2>1. page = "group" /\ Reload(Shown(w), work \ {w})
    BY <1>4 DEF GroupInv, Served
  <2>2. Same(group, Shown(w))
    BY <1>1, ShownSame
  <2>3. Sound(Shown(w), work \ {w})
    BY <1>1, <2>2, SoundKept
  <2>4. Sound(group', work') /\ group'.id = Shown(w).id /\ group'.trust = Shown(w).trust
    BY <2>1, <2>3, ReloadSound
  <2> QED
    BY <1>1, <2>1, <2>2, <2>4 DEF GroupInv, Same, Counted
<1>5. CASE Served(w) /\ ~(w.here /\ w.kind = "invite")
  <2>1. work' = work \ {w} /\ group' \in {group, Shown(w)}
    BY <1>5 DEF Served
  <2> QED
    BY <1>1, <1>2, <2>1, ShownSame, NothingNew
<1> QED
  BY <1>3, <1>4, <1>5

\* The page opens, reads again, or closes.
LEMMA TurnKeepsGroup ==
  ASSUME GroupInv, \/ FocusGroup \/ LeaveGroup \/ \E w \in work : Gone(w)
                   \/ \E g \in Group : OpenGroup(g) \/ OthersChange(g)
  PROVE  GroupInv' /\ (group'.id = group.id => group.id = None \/ group'.trust >= group.trust)
<1>1. Counted(group) /\ Sound(group, work)
  BY DEF GroupInv, Sound
<1>2. CASE FocusGroup
  <2>1. Sound(group', work') /\ group'.trust = group.trust
    BY <1>1, <1>2, ReloadSound DEF FocusGroup
  <2> QED
    BY <1>1, <1>2, <2>1 DEF GroupInv, FocusGroup, Counted
<1>3. ASSUME NEW g \in Group, OpenGroup(g)
      PROVE  GroupInv' /\ group.id = None
  <2> DEFINE fresh == [NoGroup EXCEPT !.id = g]
  <2>1. page = Elsewhere /\ page' = "group" /\ Reload(fresh, work)
    BY <1>3 DEF OpenGroup
  <2>2. group = NoGroup /\ (\A w \in work : Request(w)) /\ group.id = None
    BY <2>1 DEF GroupInv, Elsewhere, NoGroup
  <2>3. Counted(fresh)
    BY DEF Counted, NoGroup, Keys
  <2> HIDE DEF fresh
  <2>4. Sound(fresh, work)
    BY <1>1, <2>2, <2>3 DEF Sound, Current, Reloads, Request
  <2>5. Sound(group', work')
    BY <2>1, <2>4, ReloadSound
  <2> QED
    BY <2>1, <2>2, <2>5 DEF GroupInv
<1>4. CASE \E g \in Group : OthersChange(g)
  <2>1. group' = group /\ work' = work /\ page' = page
    BY <1>4 DEF OthersChange, groupVars
  <2> QED
    BY <1>1, <2>1 DEF GroupInv, Counted
<1>5. ASSUME NEW pending \in SUBSET work, CloseGroup(pending)
      PROVE  GroupInv' /\ (group'.id = group.id => group.id = None)
  <2>1. NoGroup.id = None
    BY DEF NoGroup
  <2> QED
    BY <1>1, <1>5, <2>1, ClosedSound DEF GroupInv
<1>6. CASE LeaveGroup
  BY <1>5, <1>6 DEF LeaveGroup
<1>7. ASSUME NEW w \in work, Gone(w)
      PROVE  GroupInv' /\ (group'.id = group.id => group.id = None \/ group'.trust >= group.trust)
  <2>1. CASE CloseGroup(work \ {w})
    BY <1>5, <2>1
  <2>2. CASE work' = work \ {w} /\ group' = group /\ page' = page
    <3>1. Sound(group', work')
      BY <1>1, <2>2, NothingNew, SoundKept
    <3> QED
      BY <1>1, <2>2, <3>1 DEF GroupInv, Counted
  <2> QED
    BY <1>7, <2>1, <2>2 DEF Gone
<1> QED
  BY <1>2, <1>3, <1>4, <1>6, <1>7

LEMMA GroupStep ==
  ASSUME GroupInv, [SocialNext]_socialVars
  PROVE  GroupInv' /\ (group'.id = group.id => group.id = None \/ group'.trust >= group.trust)
<1>1. Counted(group)
  BY DEF GroupInv, Sound
<1>2. ASSUME group' = group, work' = work, page = "group" => page' = page
      PROVE  GroupInv' /\ group'.trust >= group.trust
  BY <1>1, <1>2 DEF GroupInv, Counted
<1>3. ASSUME GroupStays
      PROVE  GroupInv' /\ (group'.id = group.id => group.id = None \/ group'.trust >= group.trust)
  <2>1. CASE page' = page
    BY <1>2, <1>3, <2>1 DEF GroupStays, groupVars
  <2>2. CASE page' # page
    <3>1. CloseGroup(work) /\ NoGroup.id = None
      BY <1>3, <2>2 DEF GroupStays, NoGroup
    <3> QED
      BY <3>1, ClosedSound DEF GroupInv
  <2> QED
    BY <2>1, <2>2
<1>4. CASE GroupNext
  BY <1>4, UserKeepsGroup, DetailKeepsGroup, CheckKeepsGroup, AnswerKeepsGroup, TurnKeepsGroup DEF GroupNext
<1>5. CASE UNCHANGED groupVars /\ (ProfileNext \/ MomentsNext \/ TimelineNext)
  <2>1. page = "group" => page' = page
    BY <1>5, LeaveOwn DEF Elsewhere
  <2> QED
    BY <1>2, <1>5, <2>1 DEF groupVars
<1>6. CASE UNCHANGED socialVars
  BY <1>2, <1>6 DEF socialVars, groupVars
<1> QED
  BY <1>3, <1>4, <1>5, <1>6 DEF SocialNext

-----------------------------------------------------------------------------
(* What holds in every state of the pages.                                 *)

SocialInv == FriendsInv /\ ListsInv /\ MomentsInv /\ TimelineInv /\ GroupInv

LEMMA SocialStarts == SocialInit => SocialInv
<1> SUFFICES ASSUME SocialInit PROVE SocialInv
  OBVIOUS
<1> USE DEF SocialInit
<1>1. /\ FriendsInit /\ page = Elsewhere /\ gets = << >> /\ events = << >> /\ stale = FALSE
      /\ MomentsInit /\ TimelineInit /\ GroupInit
  BY DEF ContactsInit
<1>2. FriendsInv
  <2>1. FriendsTypeOK
    BY <1>1 DEF FriendsInit, FriendsTypeOK, Status
  <2> QED
    BY <1>1, <2>1, Pairs DEF FriendsInit, FriendsInv, Reversing, Mutual
<1>3. ListsInv
  <2>1. ListsTypeOK
    <3>1. gets \in Seq([seen : SUBSET User, then : {None, "profile"}])
      BY <1>1
    <3>2. events \in Seq({"friend_request", "friend_accepted"})
      BY <1>1
    <3> QED
      BY <1>1, <3>1, <3>2 DEF ListsTypeOK
  <2>2. CallsOfMe
    BY <1>1 DEF CallsOfMe, FriendsInit
  <2> QED
    BY <1>1, <2>1, <2>2 DEF ListsInv, ListsRight, Elsewhere
<1>4. \A u \in User : New(u) \in PostRow
  BY DEF New, PostRow
<1>5. MomentsInv
  <2>1. moments \in Table(MomentId)
    BY <1>1, <1>4 DEF MomentsInit, Table
  <2>2. Nothing \in Lists(MomentId)
    BY DEF Nothing, Lists
  <2>5. fetches = << >> /\ asks = {} /\ behind \in BOOLEAN /\ feed = Nothing /\ kept = Nothing
    BY <1>1 DEF MomentsInit
  <2>3. fetches \in Seq(MomentsList)
    BY <2>5
  <2>4. MomentsTypeOK
    BY <2>1, <2>2, <2>3, <2>5 DEF MomentsTypeOK
  <2> QED
    BY <1>1, <2>4 DEF MomentsInv, MomentsRight, Elsewhere
<1>6. TimelineInv
  <2>1. posts \in Table(PostId)
    BY <1>1, <1>4 DEF TimelineInit, Table
  <2>2. Nothing \in Lists(PostId) /\ DOMAIN Nothing = {}
    BY DEF Nothing, Lists
  <2>3. wall = NoWall /\ NoWall \in WallType /\ wall.open = 0 /\ wall.post = None /\ wall.list = Nothing
    BY <1>1, <2>2 DEF TimelineInit, NoWall, WallType
  <2>4. saved \in [list : Lists(PostId), post : Table(PostId)] /\ saved.list = Nothing
    BY <1>1, <2>2 DEF TimelineInit, Table
  <2>8. loads = << >> /\ deeds = {} /\ missed \in BOOLEAN
    BY <1>1 DEF TimelineInit
  <2>9. loads \in Seq(Loading)
    BY <2>8
  <2>5. loads \in Seq(Loading) /\ DOMAIN loads = {} /\ deeds = {} /\ missed \in BOOLEAN
    BY <2>8, <2>9
  <2>6. TimelineTypeOK
    BY <2>1, <2>3, <2>4, <2>5 DEF TimelineTypeOK
  <2>7. ListsUsed /\ OfThePost
    BY <2>2, <2>3, <2>4, <2>5 DEF ListsUsed, OfThePost
  <2> QED
    BY <1>1, <2>6, <2>7 DEF TimelineInv, WallRight, Elsewhere
<1>7. GroupInv
  <2>1. Counted(NoGroup)
    BY DEF Counted, NoGroup, Keys
  <2> QED
    BY <1>1, <2>1 DEF GroupInit, GroupInv, Sound
<1> QED
  BY <1>2, <1>3, <1>5, <1>6, <1>7 DEF SocialInv

LEMMA SocialStep == SocialInv /\ [SocialNext]_socialVars => SocialInv'
BY SocialFriends, ListsStep, MomentsStep, TimelineStep, GroupStep DEF SocialInv

\* The pages change friendships by the handlers of friends.rs only: whatever is done on
\* them, the friendships behave as on their own.
THEOREM PagesUseFriendships == SocialSpec => FriendsSpec
<1>1. SocialInit => FriendsInit
  BY DEF SocialInit, ContactsInit
<1>2. [SocialNext]_socialVars => [FriendsNext]_friendVars
  BY SocialIsFriends DEF socialVars
<1> QED
  BY <1>1, <1>2, PTL DEF SocialSpec, FriendsSpec

\* Friendships are mutual whatever is done on the pages (friends.rs), but for the window
\* between the two statements of an acceptance.
THEOREM PagesKeepFriendsMutual == SocialSpec => []Mutual
BY PagesUseFriendships, FriendshipIsMutual, PTL

\* The open contacts page lists the friends of the table once nothing is under way and
\* nothing was lost or overtaken (the listeners and the handlers of Contacts.tsx).
THEOREM FriendsAreListed == SocialSpec => []ListsShowFriends
<1>1. SocialInv => ListsShowFriends
  BY DEF SocialInv, ListsInv, ListsTypeOK, ListsRight, Announced, Latest, ListsShowFriends
<1> QED
  BY <1>1, SocialStarts, SocialStep, PTL DEF SocialSpec

\* Moments and the timeline show what the server holds once nothing is under way and
\* nothing was missed (refresh in Moments.tsx, loadPosts and loadPost in Timeline.tsx).
THEOREM FeedsShowTheServer == SocialSpec => []FeedsAgree
<1>1. MomentsInv => MomentsAgree
  BY DEF MomentsInv, MomentsTypeOK, MomentsRight, MomentsAgree, Waiting, ShownLast
<1>2. TimelineInv => TimelineAgrees
  <2> SUFFICES ASSUME TimelineInv, page = "timeline", loads = << >>, ~missed
               PROVE  IF wall.open = 0 THEN wall.list = Posts ELSE posts[wall.open] \in {Tombstone, wall.post}
    BY DEF TimelineAgrees
  <2>1. LoadsOf(0) = {} /\ LoadsOf(wall.open) = {}
    BY DEF LoadsOf
  <2> QED
    BY <2>1 DEF TimelineInv, WallRight, ListRight, PostRight, ShownLast
<1>3. SocialInv => FeedsAgree
  BY <1>1, <1>2 DEF SocialInv, FeedsAgree
<1> QED
  BY <1>3, SocialStarts, SocialStep, PTL DEF SocialSpec

\* The trust that the page of a group shows never goes back to an earlier check
\* (trustRevision and refreshGeneration in GroupInfo.tsx).
THEOREM TrustIsFreshest == SocialSpec => TrustFreshest
<1>1. SocialInv /\ [SocialNext]_socialVars
      => [group.id # None /\ group'.id = group.id => group'.trust >= group.trust]_<<group, work>>
  BY GroupStep DEF SocialInv
<1> QED
  BY <1>1, SocialStarts, SocialStep, PTL DEF SocialSpec, TrustFreshest
=============================================================================
