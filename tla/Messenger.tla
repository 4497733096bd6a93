------------------------------ MODULE Messenger ------------------------------
(***************************************************************************)
(* The message bus of the front end (Messenger.cpp).  Broadcasts and       *)
(* subscriptions spin until the counter of the other kind is 0 and then    *)
(* increment their own; the test and the increment are separate steps, so  *)
(* that two threads can be inside subscribe at once.                       *)
(***************************************************************************)
EXTENDS Naturals, Sequences, FiniteSets

CONSTANTS
    BusThreads,     \* the threads that broadcast or subscribe
    Messages,
    MaxNesting      \* bound on broadcasts inside callbacks of broadcasts

ASSUME MessagesAssumption == Messages # {}

VARIABLES
    g_subscribers,          \* pairs of uid and message, in the order of subscription
    g_subscriber_cache,     \* per message: the uids to call
    g_uid_accumulator,
    g_broadcasting, g_subscribing,
    overlapped,     \* history: whether two threads were inside subscribe at once
    broadcasts,     \* per thread: its broadcasts, the innermost first
    subscription    \* per thread: its call of subscribe or of the function that unsubscribes

busVars == <<g_subscribers, g_subscriber_cache, g_uid_accumulator, g_broadcasting,
             g_subscribing, overlapped, broadcasts, subscription>>

NoSubscription == [at |-> "none", message |-> "", uid |-> 0]

\* The elements of a vector at the indices in K, in their order.
Keep(vector, K) ==
    [i \in 1 .. Cardinality(K) |->
        vector[CHOOSE k \in K : Cardinality({j \in K : j <= k}) = i]]

\* What rebuild_subscriber_cache fills in for a message.
Subscribed(subscribers, message) ==
    LET found == Keep(subscribers, {k \in 1 .. Len(subscribers) : subscribers[k].message = message})
    IN [i \in 1 .. Len(found) |-> found[i].uid]

\* std::erase_if in the function that unsubscribes.
Without(subscribers, uid) ==
    Keep(subscribers, {k \in 1 .. Len(subscribers) : subscribers[k].uid # uid})

\* main subscribes before any thread is started.
MessengerInit ==
    /\ g_subscribers = << [uid |-> 0, message |-> CHOOSE m \in Messages : TRUE] >>
    /\ g_subscriber_cache = [m \in Messages |-> Subscribed(g_subscribers, m)]
    /\ g_uid_accumulator = 1
    /\ g_broadcasting = 0
    /\ g_subscribing = 0
    /\ overlapped = FALSE
    /\ broadcasts = [t \in BusThreads |-> << >>]
    /\ subscription = [t \in BusThreads |-> NoSubscription]

Innermost(t) == Head(broadcasts[t])
Broadcasting(t, at) == broadcasts[t] # << >> /\ Innermost(t).at = at
SetInnermost(t, b) == broadcasts' = [broadcasts EXCEPT ![t] = <<b>> \o Tail(@)]
Subscribing(t, at) == subscription[t].at = at
Unsubscribing(t) == subscription[t].message = ""
SubscribingNext(t, at) == subscription' = [subscription EXCEPT ![t].at = at]

SubscribersUnchanged ==
    UNCHANGED <<g_subscribers, g_subscriber_cache, g_uid_accumulator, overlapped>>

-----------------------------------------------------------------------------
(* broadcast                                                               *)

\* A call of broadcast, perhaps from a callback of another broadcast.
broadcast(t, message) ==
    /\ Len(broadcasts[t]) <= MaxNesting
    /\ broadcasts' = [broadcasts EXCEPT ![t] =
                        << [message |-> message, at |-> "waiting", rest |-> << >>] >> \o @]
    /\ SubscribersUnchanged
    /\ UNCHANGED <<g_broadcasting, g_subscribing, subscription>>

wait_for_subscribe_end(t) ==
    /\ Broadcasting(t, "waiting")
    /\ g_subscribing = 0
    /\ SetInnermost(t, [Innermost(t) EXCEPT !.at = "entering"])
    /\ SubscribersUnchanged
    /\ UNCHANGED <<g_broadcasting, g_subscribing, subscription>>

\* g_subscriber_cache[message] gives a message without subscribers an empty
\* entry; here every message has one from the start.
broadcast_begins(t) ==
    /\ Broadcasting(t, "entering")
    /\ g_broadcasting' = g_broadcasting + 1
    /\ SetInnermost(t, [Innermost(t) EXCEPT !.at = "calling",
                                            !.rest = g_subscriber_cache[Innermost(t).message]])
    /\ SubscribersUnchanged
    /\ UNCHANGED <<g_subscribing, subscription>>

\* The next callback.  When the cache was rebuilt meanwhile the vector that the
\* loop iterates is freed: it may go on over the old elements or come to an end.
call_subscriber(t) ==
    /\ Broadcasting(t, "calling")
    /\ Innermost(t).rest # << >>
    /\ \/ SetInnermost(t, [Innermost(t) EXCEPT !.rest = Tail(@)])
       \/ /\ \E u \in BusThreads : subscription[u].at \in {"cleared", "leaving"}
          /\ SetInnermost(t, [Innermost(t) EXCEPT !.rest = << >>])
    /\ SubscribersUnchanged
    /\ UNCHANGED <<g_broadcasting, g_subscribing, subscription>>

\* Mutant: the counter is not decremented.
broadcast_ends_uncounted(t) ==
    /\ Broadcasting(t, "calling")
    /\ Innermost(t).rest = << >>
    /\ broadcasts' = [broadcasts EXCEPT ![t] = Tail(@)]
    /\ SubscribersUnchanged
    /\ UNCHANGED <<g_broadcasting, g_subscribing, subscription>>

broadcast_ends(t) ==
    /\ Broadcasting(t, "calling")
    /\ Innermost(t).rest = << >>
    /\ g_broadcasting' = g_broadcasting - 1
    /\ broadcasts' = [broadcasts EXCEPT ![t] = Tail(@)]
    /\ SubscribersUnchanged
    /\ UNCHANGED <<g_subscribing, subscription>>

-----------------------------------------------------------------------------
(* subscribe, and the function it returns                                  *)

\* Another thread is between ++g_subscribing and --g_subscribing: g_subscribers
\* and g_uid_accumulator are then used without synchronisation.
Racing == g_subscribing > 0

\* g_uid_accumulator++: in a race two threads may read the same value.
NextUids == {g_uid_accumulator} \cup (IF Racing THEN {g_uid_accumulator - 1} ELSE {})

\* emplace_back or erase_if: in a race the change of one thread may be lost.
Changed(subscribers) == {subscribers} \cup (IF Racing THEN {g_subscribers} ELSE {})

\* ++g_subscribing, then a new subscriber or one less, and then the stage next.
Change(t, next) ==
    /\ Subscribing(t, "entering")
    /\ g_subscribing' = g_subscribing + 1
    /\ overlapped' = (overlapped \/ Racing)
    /\ IF Unsubscribing(t)
       THEN /\ g_subscribers' \in Changed(Without(g_subscribers, subscription[t].uid))
            /\ SubscribingNext(t, next)
            /\ UNCHANGED g_uid_accumulator
       ELSE \E uid \in NextUids :
              /\ g_uid_accumulator' = uid + 1
              /\ g_subscribers' \in Changed(Append(g_subscribers,
                                    [uid |-> uid, message |-> subscription[t].message]))
              /\ subscription' = [subscription EXCEPT ![t].at = next, ![t].uid = uid]
    /\ UNCHANGED <<g_subscriber_cache, g_broadcasting, broadcasts>>

\* Mutant: the cache is not rebuilt after the change.
change_without_rebuild(t) == Change(t, "leaving")

subscribe(t, message) ==
    /\ Subscribing(t, "none")
    /\ subscription' = [subscription EXCEPT ![t] =
                          [NoSubscription EXCEPT !.at = "waiting", !.message = message]]
    /\ SubscribersUnchanged
    /\ UNCHANGED <<g_broadcasting, g_subscribing, broadcasts>>

unsubscribe(t, uid) ==
    /\ Subscribing(t, "none")
    /\ subscription' = [subscription EXCEPT ![t] = [at |-> "waiting", message |-> "", uid |-> uid]]
    /\ SubscribersUnchanged
    /\ UNCHANGED <<g_broadcasting, g_subscribing, broadcasts>>

wait_for_broadcast_end(t) ==
    /\ Subscribing(t, "waiting")
    /\ g_broadcasting = 0
    /\ SubscribingNext(t, "waiting_for_subscribers")
    /\ SubscribersUnchanged
    /\ UNCHANGED <<g_broadcasting, g_subscribing, broadcasts>>

wait_for_other_subscriptions(t) ==
    /\ Subscribing(t, "waiting_for_subscribers")
    /\ g_subscribing = 0
    /\ SubscribingNext(t, "entering")
    /\ SubscribersUnchanged
    /\ UNCHANGED <<g_broadcasting, g_subscribing, broadcasts>>

change_subscribers(t) == Change(t, "changed")

\* rebuild_subscriber_cache clears the cache and fills it again.
clear_subscriber_cache(t) ==
    /\ Subscribing(t, "changed")
    /\ g_subscriber_cache' = [m \in Messages |-> << >>]
    /\ SubscribingNext(t, "cleared")
    /\ UNCHANGED <<g_subscribers, g_uid_accumulator, g_broadcasting, g_subscribing,
                   overlapped, broadcasts>>

rebuild_subscriber_cache(t) ==
    /\ Subscribing(t, "cleared")
    /\ g_subscriber_cache' = [m \in Messages |->
                                g_subscriber_cache[m] \o Subscribed(g_subscribers, m)]
    /\ SubscribingNext(t, "leaving")
    /\ UNCHANGED <<g_subscribers, g_uid_accumulator, g_broadcasting, g_subscribing,
                   overlapped, broadcasts>>

subscription_ends(t) ==
    /\ Subscribing(t, "leaving")
    /\ g_subscribing' = g_subscribing - 1
    /\ subscription' = [subscription EXCEPT ![t] = NoSubscription]
    /\ SubscribersUnchanged
    /\ UNCHANGED <<g_broadcasting, broadcasts>>

\* What a thread does without being asked, except for the callbacks.
BroadcastStep(t) ==
    \/ wait_for_subscribe_end(t) \/ broadcast_begins(t) \/ broadcast_ends(t)
SubscribeStep(t) ==
    \/ wait_for_broadcast_end(t) \/ wait_for_other_subscriptions(t) \/ change_subscribers(t)
    \/ clear_subscriber_cache(t) \/ rebuild_subscriber_cache(t)

-----------------------------------------------------------------------------
(* Properties                                                              *)

\* Between subscriptions the cache that broadcasts iterate holds exactly the
\* subscribers, in their order (rebuild_subscriber_cache), whichever threads
\* subscribe and unsubscribe.  The exception is named: once two threads were
\* inside subscribe at the same time, which its waits do not exclude, subscribers
\* may be lost or called twice.
CacheCurrent ==
    ~overlapped /\ g_subscribing = 0 =>
        \A m \in Messages : g_subscriber_cache[m] = Subscribed(g_subscribers, m)

=============================================================================
