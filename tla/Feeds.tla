------------------------------- MODULE Feeds -------------------------------
(***************************************************************************)
(* The follows of one account on one feed, and the polls that send its new *)
(* items to be processed.  A poll marks the items seen first and then      *)
(* routes them one by one; every change of a follow, a poll's too, puts    *)
(* back the whole row it read earlier.  A poll of everything reads the     *)
(* follows through an index that lags, and compares the feed's items with  *)
(* the row only, not with each other.                                      *)
(***************************************************************************)
EXTENDS Naturals, FiniteSets

CONSTANTS
    Followers,      \* the requests about follows; one that subscribes names its row
    Polls,          \* the messages of the poll queue
    Guids,          \* the items of the feed
    Listings,       \* how often a document of the feed may list an item
    PollReceives    \* maxReceiveCount of the poll queue

ASSUME FeedsAssumption == PollReceives \in Nat \ {0} /\ Listings \in Nat

VARIABLES
    feeds,          \* the rows of user_rss_feeds
    indexed,        \* the same rows as status-index shows them
    follow,         \* the requests and their local variables
    poll,           \* the polls and theirs
    routed,         \* how often an item of a follow was sent
    stale,          \* the rows put back over a change made since they were read
    repeated        \* the items a document listed more than once when they were new

marks == <<stale, repeated>>
feedVars == <<feeds, indexed, follow, poll, routed, marks>>

FeedRows == [status : {"active", "paused"}, seen : SUBSET Guids]
NoFeed == [status |-> "absent"]
Followed(f) == feeds[f] # NoFeed
Active(f) == feeds[f].status = "active"

FollowSteps == {"idle", "query", "put", "get", "write", "done"}
\* to: the status to give to the follow, "absent" to end it
NoFollow == [pc |-> "idle", on |-> {}, to |-> "active", row |-> NoFeed]
PollSteps == {"queued", "poll", "route", "gone"}
\* How often a list of the feed's items has each of them.
Documents == [Guids -> 0..Listings]
NoItems == [g \in Guids |-> 0]
\* work: the follows listed and the rows they had; items: those of one still to route
NoPoll == [pc |-> "queued", received |-> 0, single |-> FALSE, work |-> {}, on |-> {},
           items |-> NoItems]
Snapshots == [feed : Followers, row : FeedRows]

FeedsTypeOK ==
    /\ feeds \in [Followers -> FeedRows \cup {NoFeed}]
    /\ indexed \in [Followers -> FeedRows \cup {NoFeed}]
    /\ follow \in [Followers -> [pc : FollowSteps, on : SUBSET Followers,
                                 to : {"active", "paused", "absent"}, row : FeedRows \cup {NoFeed}]]
    /\ poll \in [Polls -> [pc : PollSteps, received : 0..PollReceives, single : BOOLEAN,
                           work : SUBSET Snapshots, on : SUBSET Followers,
                           items : Documents]]
    /\ routed \in [Followers -> [Guids -> Nat]]
    /\ stale \subseteq Followers /\ repeated \subseteq Guids

FeedsInit ==
    /\ feeds = [f \in Followers |-> NoFeed] /\ indexed = feeds
    /\ follow = [q \in Followers |-> NoFollow]
    /\ poll = [x \in Polls |-> NoPoll]
    /\ routed = [f \in Followers |-> [g \in Guids |-> 0]]
    /\ stale = {} /\ repeated = {}

\* update_rss_feed puts the row without a condition, also where none is left.
PutBack(f, read, row) ==
    /\ feeds' = [feeds EXCEPT ![f] = row]
    /\ stale' = IF feeds[f] = read THEN stale ELSE stale \cup {f}

-----------------------------------------------------------------------------
(* Requests                                                                *)

FollowAt(q, pc) == follow[q].pc = pc
FollowTo(q, pc) == follow' = [follow EXCEPT ![q].pc = pc]

FollowEnds(q) == follow' = [follow EXCEPT ![q] = [NoFollow EXCEPT !.pc = "done"]]

FollowArrives(q) ==
    /\ FollowAt(q, "idle")
    /\ \/ FollowTo(q, "query")
       \/ \E f \in Followers, to \in {"active", "paused", "absent"} :
             /\ Followed(f)
             /\ follow' = [follow EXCEPT
                              ![q] = [@ EXCEPT !.pc = "get", !.on = {f}, !.to = to]]
    /\ UNCHANGED <<feeds, poll, routed, marks>>

\* subscribe: the account does not follow the feed yet ...
QueryFeeds(q) ==
    /\ FollowAt(q, "query")
    /\ IF \E f \in Followers : Followed(f) THEN FollowEnds(q) ELSE FollowTo(q, "put")
    /\ UNCHANGED <<feeds, poll, routed, marks>>

\* ... and gets a row of a new id.
PutFeed(q) ==
    /\ FollowAt(q, "put")
    /\ feeds' = [feeds EXCEPT ![q] = [status |-> "active", seen |-> {}]]
    /\ FollowEnds(q)
    /\ UNCHANGED <<poll, routed, marks>>

\* unsubscribe, pause_feed and resume_feed read the row first.
GetFeed(q) ==
    /\ FollowAt(q, "get")
    /\ \E f \in follow[q].on :
          IF ~Followed(f) THEN FollowEnds(q)
          ELSE follow' = [follow EXCEPT
                             ![q] = [@ EXCEPT !.pc = "write", !.row = feeds[f]]]
    /\ UNCHANGED <<feeds, poll, routed, marks>>

SetStatus(q) ==
    /\ FollowAt(q, "write") /\ follow[q].to # "absent"
    /\ \E f \in follow[q].on :
          PutBack(f, follow[q].row, [follow[q].row EXCEPT !.status = follow[q].to])
    /\ FollowEnds(q)
    /\ UNCHANGED <<poll, routed, repeated>>

DeleteFeed(q) ==
    /\ FollowAt(q, "write") /\ follow[q].to = "absent"
    /\ \E f \in follow[q].on : feeds' = [feeds EXCEPT ![f] = NoFeed]
    /\ FollowEnds(q)
    /\ UNCHANGED <<poll, routed, marks>>

FollowRaises(q) ==
    /\ follow[q].pc \in {"query", "put", "get", "write"}
    /\ FollowEnds(q)
    /\ UNCHANGED <<feeds, poll, routed, marks>>

-----------------------------------------------------------------------------
(* Polls                                                                   *)

Listed(x, single, work) ==
    poll' = [poll EXCEPT ![x] =
       [NoPoll EXCEPT !.pc = "poll", !.received = poll[x].received + 1,
                      !.single = single, !.work = work]]

\* A poll of everything takes the follows status-index shows as active, with the rows it
\* shows; a poll of one reads the row.
ListFeeds(x) ==
    /\ poll[x].pc = "queued" /\ poll[x].received < PollReceives
    /\ \/ LET active == {f \in Followers : indexed[f].status = "active"}
          IN  Listed(x, FALSE, {[feed |-> f, row |-> indexed[f]] : f \in active})
       \/ \E f \in Followers :
             Active(f) /\ Listed(x, TRUE, {[feed |-> f, row |-> feeds[f]]})
    /\ UNCHANGED <<feeds, follow, routed, marks>>

\* Mutant of SeenAfter: only the items of this poll are remembered.
SeenLast(seen, new) == new

\* add_seen_guids: also what the feed lists no longer.
SeenAfter(seen, new) == seen \cup new

\* An item is new if the row has not seen it, also where the document lists it again.
NewItems(row, document) ==
    [g \in Guids |-> IF g \in row.seen THEN 0 ELSE document[g]]

\* poll_feed: every item listed that was not seen counts as seen from now on.  A feed
\* that cannot be read is put back as it was.
PollFeed(x) ==
    /\ poll[x].pc = "poll"
    /\ \E snap \in poll[x].work, document \in Documents :
          LET items == NewItems(snap.row, document)
              new == {g \in Guids : items[g] > 0}
          IN /\ PutBack(snap.feed, snap.row,
                        [snap.row EXCEPT !.seen = SeenAfter(snap.row.seen, new)])
             /\ repeated' = repeated \cup {g \in Guids : items[g] > 1}
             /\ poll' = [poll EXCEPT
                   ![x] = [poll[x] EXCEPT !.work = @ \ {snap}, !.on = {snap.feed},
                                          !.items = items, !.pc = "route"]]
    /\ UNCHANGED <<follow, routed>>

\* Routed, or skipped: no owner, no link, refused by the gate of the audio quota or,
\* in a poll of everything, raised.
RouteItem(x) ==
    /\ poll[x].pc = "route"
    /\ \E f \in poll[x].on, g \in {g \in Guids : poll[x].items[g] > 0} :
          /\ routed' \in {routed, [routed EXCEPT ![f][g] = @ + 1]}
          /\ poll' = [poll EXCEPT ![x].items[g] = @ - 1]
    /\ UNCHANGED <<feeds, follow, marks>>

NextFeed(x) ==
    /\ poll[x].pc = "route" /\ poll[x].items = NoItems
    /\ poll' = [poll EXCEPT ![x] = [@ EXCEPT !.pc = "poll", !.on = {}]]
    /\ UNCHANGED <<feeds, follow, routed, marks>>

\* In a poll of everything a follow that cannot be put is skipped.
SkipFeed(x) ==
    /\ poll[x].pc = "poll" /\ ~poll[x].single
    /\ \E snap \in poll[x].work : poll' = [poll EXCEPT ![x].work = @ \ {snap}]
    /\ UNCHANGED <<feeds, follow, routed, marks>>

PollEnds(x) ==
    /\ poll[x].pc = "poll" /\ poll[x].work = {}
    /\ poll' = [poll EXCEPT ![x] = [NoPoll EXCEPT !.pc = "gone"]]
    /\ UNCHANGED <<feeds, follow, routed, marks>>

\* A poll of one that raises, any poll that is killed: it is delivered again.
PollRaises(x) ==
    /\ poll[x].pc \in {"poll", "route"}
    /\ poll' = [poll EXCEPT ![x] = [NoPoll EXCEPT !.received = poll[x].received]]
    /\ UNCHANGED <<feeds, follow, routed, marks>>

IndexCatchesUp(f) ==
    /\ indexed' = [indexed EXCEPT ![f] = feeds[f]]
    /\ UNCHANGED <<feeds, follow, poll, routed, marks>>

RequestStep ==
    \E q \in Followers :
       \/ FollowArrives(q) \/ QueryFeeds(q) \/ PutFeed(q) \/ GetFeed(q)
       \/ SetStatus(q) \/ DeleteFeed(q) \/ FollowRaises(q)

PollStep ==
    \E x \in Polls :
       \/ ListFeeds(x) \/ PollFeed(x) \/ RouteItem(x) \/ NextFeed(x)
       \/ SkipFeed(x) \/ PollEnds(x) \/ PollRaises(x)

\* The index shows a write at once or later.
FeedStep ==
    \/ (RequestStep \/ PollStep) /\ indexed' \in {indexed, feeds'}
    \/ \E f \in Followers : IndexCatchesUp(f)
=============================================================================
