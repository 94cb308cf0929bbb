----------------------------- MODULE Broadcast -----------------------------
(***************************************************************************)
(* One broadcast room: the REST handlers of                                *)
(* apps/api/src/routes/broadcast.ts over the tables broadcast_rooms,       *)
(* broadcast_members and broadcast_messages, and the RoomView of a viewer  *)
(* (apps/web/src/features/broadcast/RoomView.tsx), which joins a page of   *)
(* history with the ROOM_POST frames of its socket.                        *)
(*                                                                         *)
(* A post is its signed content: its author, the device that signs it and  *)
(* the time it carries are functions of it.  How the frames of a room      *)
(* reach the sockets is module Rooms; here the viewer's socket watches the *)
(* room.  The caches rooms and roomPosts are written and never read back   *)
(* by this component, and are left out.                                    *)
(***************************************************************************)
EXTENDS Naturals, Sequences, FiniteSets

CONSTANTS
    RoomUsers, NoUser,
    Posts, NoPost,
    AuthorOf,    \* the user who submits a post
    SignerOf,    \* the device that signed it
    SignedAt,    \* createdAtMs, of equal ones the order of the ids
    SigningDevices,  \* enrolled devices of the authors
    WellSigned,  \* posts whose signature verifies under their device's key
    PageLimit    \* the limit of a history page

ASSUME BroadcastAssumptions ==
    /\ NoPost \notin Posts /\ NoUser \notin RoomUsers
    /\ PageLimit \in Nat \ {0}

VARIABLES
    owner,     \* owner_user of the row in broadcast_rooms, or NoUser
    role,      \* broadcast_members
    creating,  \* progress of POST /rooms, per user
    limited,   \* users with a post accepted within the window
    devices,   \* rows of table devices
    composer,  \* per device: the post its AdminComposer submits, or NoPost
    posted,    \* progress of a post, from the composer to the fan-out
    messages,  \* rows of broadcast_messages
    frames,    \* ROOM_POST frames on their way to the viewer
    feed,      \* how far the RoomView has come
    page,      \* the page of history in flight
    shown,     \* posts rendered
    gap        \* history: posts rendered live and replaced by the page

roomVars == <<owner, role, creating, limited, devices, posted, messages>>
feedVars == <<feed, page, shown, gap>>
broadcastVars == <<composer, roomVars, frames, feedVars>>

Committed == {"stored", "published", "unannounced"}

BroadcastInit ==
    /\ owner = NoUser
    /\ role = [u \in RoomUsers |-> "none"]
    /\ creating = [u \in RoomUsers |-> "idle"]
    /\ limited = {}
    /\ devices = SigningDevices
    /\ composer = [d \in SigningDevices |-> NoPost]
    /\ posted = [p \in Posts |-> "idle"]
    /\ messages = {}
    /\ frames = <<>>
    /\ feed = "loading"
    /\ page = {} /\ shown = {} /\ gap = {}

(***************************************************************************)
(* POST /rooms: two statements outside a transaction                       *)
(***************************************************************************)

InsertRoom(u) ==
    /\ creating[u] = "idle"
    /\ IF owner = NoUser
       THEN owner' = u /\ creating' = [creating EXCEPT ![u] = "inserted"]
       ELSE creating' = [creating EXCEPT ![u] = "slug_taken"] /\ UNCHANGED owner
    /\ UNCHANGED <<composer, role, limited, devices, posted, messages, frames, feedVars>>

\* ON CONFLICT DO UPDATE SET role = 'admin', then 201.
InsertAdmin(u) ==
    /\ creating[u] = "inserted"
    /\ creating' = [creating EXCEPT ![u] = "created"]
    /\ role' = [role EXCEPT ![u] = "admin"]
    /\ UNCHANGED <<composer, owner, limited, devices, posted, messages, frames, feedVars>>

\* The second statement fails or the process dies: the room stays.
CreateFails(u) ==
    /\ creating[u] = "inserted"
    /\ creating' = [creating EXCEPT ![u] = "failed"]
    /\ UNCHANGED <<composer, owner, role, limited, devices, posted, messages, frames, feedVars>>

\* findRoomBySlug
Found == owner # NoUser

(***************************************************************************)
(* POST /rooms/:slug/subscribe: ON CONFLICT DO NOTHING                     *)
(***************************************************************************)

SubscribeToRoom(u) ==
    /\ Found
    /\ role[u] = "none"
    /\ role' = [role EXCEPT ![u] = "subscriber"]
    /\ UNCHANGED <<composer, owner, creating, limited, devices, posted, messages, frames, feedVars>>

(***************************************************************************)
(* AdminComposer: one submission of a device at a time.  After a lost      *)
(* answer its text stays, and submitting it again makes another post.      *)
(***************************************************************************)

Submit(p) ==
    /\ composer[SignerOf[p]] = NoPost /\ posted[p] = "idle" /\ Found
    /\ composer' = [composer EXCEPT ![SignerOf[p]] = p]
    /\ UNCHANGED <<roomVars, frames, feedVars>>

\* The key is unwrapped, the post signed with the time of now and sent, or
\* there is no identity to sign it with.
Sign(p) ==
    /\ composer[SignerOf[p]] = p /\ posted[p] = "idle"
    /\ \/ posted' = [posted EXCEPT ![p] = "sent"] /\ UNCHANGED composer
       \/ composer' = [composer EXCEPT ![SignerOf[p]] = NoPost] /\ UNCHANGED posted
    /\ UNCHANGED <<owner, role, creating, limited, devices, messages, frames, feedVars>>

Refusals == {"clock_skew", "forbidden", "rate_limited", "invalid_signature", "failed"}

\* The answer arrives, or the request fails on its way while the server
\* may still work on it.
PostAnswered(p) ==
    /\ composer[SignerOf[p]] = p /\ posted[p] \in Refusals \cup {"published", "unannounced"}
    /\ composer' = [composer EXCEPT ![SignerOf[p]] = NoPost]
    /\ UNCHANGED <<roomVars, frames, feedVars>>

AnswerLost(p) ==
    /\ composer[SignerOf[p]] = p /\ posted[p] # "idle"
    /\ composer' = [composer EXCEPT ![SignerOf[p]] = NoPost]
    /\ UNCHANGED <<roomVars, frames, feedVars>>

(***************************************************************************)
(* POST /rooms/:slug/messages.  Room and role are read as one moment:      *)
(* neither is ever taken back.  The limiter follows the role synchronously.*)
(***************************************************************************)

Admit(p) ==
    LET u == AuthorOf[p]
    IN  /\ posted[p] = "sent"
        /\ Found
        /\ posted' = [posted EXCEPT ![p] =
                        CASE role[u] # "admin" -> "forbidden"
                          [] role[u] = "admin" /\ u \in limited -> "rate_limited"
                          [] OTHER -> "admitted"]
        /\ limited' = IF role[u] = "admin" THEN limited \cup {u} ELSE limited
        /\ UNCHANGED <<composer, owner, role, creating, devices, messages, frames, feedVars>>

\* The clocks of the device and the server are a minute apart.
RefuseSkewed(p) ==
    /\ posted[p] = "sent"
    /\ posted' = [posted EXCEPT ![p] = "clock_skew"]
    /\ UNCHANGED <<composer, owner, role, creating, limited, devices, messages, frames, feedVars>>

\* The signing device is looked up and the signature verified.
Verify(p) ==
    /\ posted[p] = "admitted"
    /\ posted' = [posted EXCEPT ![p] =
                    IF SignerOf[p] \in devices /\ p \in WellSigned
                    THEN "verified" ELSE "invalid_signature"]
    /\ UNCHANGED <<composer, owner, role, creating, limited, devices, messages, frames, feedVars>>

\* The INSERT: author_device must still be a row of devices.
InsertPost(p) ==
    /\ posted[p] = "verified"
    /\ IF SignerOf[p] \in devices
       THEN messages' = messages \cup {p} /\ posted' = [posted EXCEPT ![p] = "stored"]
       ELSE posted' = [posted EXCEPT ![p] = "failed"] /\ UNCHANGED messages
    /\ UNCHANGED <<composer, owner, role, creating, limited, devices, frames, feedVars>>

FanOut(p) ==
    /\ posted[p] = "stored"
    /\ posted' = [posted EXCEPT ![p] = "published"]
    /\ frames' = Append(frames, p)
    /\ UNCHANGED <<composer, owner, role, creating, limited, devices, messages, feedVars>>

\* The publish fails, which the handler swallows, or the process dies.
FanoutFails(p) ==
    /\ posted[p] = "stored"
    /\ posted' = [posted EXCEPT ![p] = "unannounced"]
    /\ UNCHANGED <<composer, owner, role, creating, limited, devices, messages, frames, feedVars>>

\* One second has passed since the author's last accepted post.
WindowEnds(u) ==
    /\ u \in limited
    /\ limited' = limited \ {u}
    /\ UNCHANGED <<composer, owner, role, creating, devices, posted, messages, frames, feedVars>>

\* DELETE /devices/:id; author_device is ON DELETE CASCADE.
DeleteDevice(d) ==
    /\ d \in devices
    /\ devices' = devices \ {d}
    /\ messages' = {p \in messages : SignerOf[p] # d}
    /\ UNCHANGED <<composer, owner, role, creating, limited, posted, frames, feedVars>>

(***************************************************************************)
(* RoomView                                                                *)
(***************************************************************************)

\* getRoom answered: the listener for room_post is attached from now on.
RoomLoaded ==
    /\ feed = "loading" /\ Found
    /\ feed' = "room"
    /\ UNCHANGED <<composer, roomVars, frames, page, shown, gap>>

\* ORDER BY created_at DESC, id DESC LIMIT n.
Newest(S, n) ==
    {p \in S : Cardinality({q \in S : SignedAt[q] > SignedAt[p]}) < n}

\* Mutant of ReadPage: ORDER BY created_at ASC.
ReadOldest ==
    /\ feed = "room"
    /\ feed' = "fetching"
    /\ page' = messages \ Newest(messages, Cardinality(messages) - PageLimit)
    /\ UNCHANGED <<composer, roomVars, frames, shown, gap>>

\* GET /rooms/:slug/messages: the database reads the page.
ReadPage ==
    /\ feed = "room"
    /\ feed' = "fetching"
    /\ page' = Newest(messages, PageLimit)
    /\ UNCHANGED <<composer, roomVars, frames, shown, gap>>

\* setPosts(rendered): the page replaces whatever is rendered.
PageArrives ==
    /\ feed = "fetching"
    /\ feed' = "ready"
    /\ gap' = gap \cup (shown \ page)
    /\ shown' = page
    /\ page' = {}
    /\ UNCHANGED <<composer, roomVars, frames>>

\* listMessages fails: the error takes the place of the posts for good.
LoadFails ==
    /\ feed \in {"room", "fetching"}
    /\ feed' = "error"
    /\ page' = {} /\ shown' = {} /\ gap' = {}
    /\ UNCHANGED <<composer, roomVars, frames>>

\* A ROOM_POST frame arrives; with no listener, or no posts to show, it is dropped.
Frame ==
    /\ frames # <<>>
    /\ frames' = Tail(frames)
    /\ shown' = IF feed \in {"loading", "error"} THEN shown ELSE shown \cup {Head(frames)}
    /\ UNCHANGED <<composer, roomVars, feed, page, gap>>

\* The viewer leaves the room and may come back: a new component.
LeaveFeed ==
    /\ feed # "loading"
    /\ feed' = "loading"
    /\ page' = {} /\ shown' = {} /\ gap' = {}
    /\ UNCHANGED <<composer, roomVars, frames>>

BroadcastNext ==
    \/ \E u \in RoomUsers :
          \/ InsertRoom(u) \/ InsertAdmin(u) \/ CreateFails(u)
          \/ SubscribeToRoom(u) \/ WindowEnds(u)
    \/ \E p \in Posts :
          \/ Submit(p) \/ Sign(p) \/ PostAnswered(p) \/ AnswerLost(p)
          \/ Admit(p) \/ RefuseSkewed(p) \/ Verify(p) \/ InsertPost(p)
          \/ FanOut(p) \/ FanoutFails(p)
    \/ \E d \in SigningDevices : DeleteDevice(d)
    \/ RoomLoaded \/ ReadPage \/ PageArrives \/ LoadFails \/ Frame \/ LeaveFeed

BroadcastSpec == BroadcastInit /\ [][BroadcastNext]_broadcastVars

(***************************************************************************)
(* Properties                                                              *)
(***************************************************************************)

\* A ready view shows every published post that is in the table and among
\* the newest PageLimit ever stored, or its frame is still to come, or it is
\* one of those the page replaced: page and frames leave no other hole.
CaughtUp ==
    feed = "ready" =>
        \A p \in Newest({q \in Posts : posted[q] \in Committed}, PageLimit) :
            p \in messages /\ posted[p] = "published" =>
                \/ p \in shown \cup gap
                \/ \E i \in 1..Len(frames) : frames[i] = p
=============================================================================
