------------------------------ MODULE LockPaths ------------------------------
(***************************************************************************)
(* The lock operations of the handlers that hold the Store's mutex over    *)
(* something other than plain map accesses, of the background worker, and  *)
(* of two ordinary handlers to compare them with.  One definition per      *)
(* handler: the set of operation lists its control paths perform, early    *)
(* returns included.  The role middleware in front of a handler takes only *)
(* plain sections like Session's and is left out, as are calls made with   *)
(* no lock held that take none; a loop is cut after the number of rounds   *)
(* its comment gives.                                                      *)
(***************************************************************************)
EXTENDS Naturals, Sequences

\* A Store getter: RLock and its deferred RUnlock.
R == <<"RLock", "RUnlock">>

\* A Store Create, Update, Add or Save method: Lock and its deferred Unlock.
W == <<"Lock", "Unlock">>

Then(p, S) == {p \o s : s \in S}

\* GetUserIdFromAuthHeader: a malformed header ends the request without
\* touching the Store, an unknown or suspended session after one lookup.
Session(S) == {<<>>, R} \cup Then(R, S)

\* The session, and the GetUserByID most handlers follow it with; an unknown
\* user or a wrong role ends the request there.
SessionUser(S) == Session({R} \cup Then(R, S))

-----------------------------------------------------------------------------
(* Handlers that only ever use the lock one plain section at a time.       *)

\* Mutant: the entry is added with the lock of the idempotency check held.
PayRentReentrant == Session({R, R \o <<"Lock">> \o W \o <<"Unlock">> \o W})

\* Lease lookup, idempotency scan, then the ledger entry and the SMS record.
PayRent == Session({R, R \o R, R \o R \o W \o W})

\* Mutant: an early return forgets the Unlock.
UpdatePropertyLeaking == Session({<<"Lock">>, W \o W})

\* The update section, left early when the property is missing or foreign,
\* then CreateProperty.
UpdateProperty == Session({W, W \o W})

-----------------------------------------------------------------------------
(* Handlers that wait on something else while they hold the lock.          *)

\* Store.Delete* deletes the document in MongoDB before it unlocks; without a
\* database there is nothing to wait for.
DeleteRecord == {W, <<"Lock", "Mongo", "Unlock">>}
DeleteRegion == SessionUser({R} \cup Then(R, DeleteRecord))

\* The KYC queue is encoded into the response under the write lock.
ListKYCQueues == SessionUser({<<"Lock", "Peer", "Unlock">>})

\* Likewise, under the read lock and without a session.
DebugDB == {<<"RLock", "Peer", "RUnlock">>}
DebugListInvitations == {<<"RLock", "Peer", "RUnlock">>}

\* One hourly round over the listings, here two of them: one pending for 24
\* hours is published, saved and announced with the lock given back, one
\* pending for 4 hours is announced to the admins under the lock.
ListingReviewWorker ==
    LET Listing == {<<>>, <<"Peer">>, <<"Unlock">> \o W \o <<"Peer", "Lock">>}
    IN {<<"Lock">> \o x \o y \o <<"Unlock">> : x \in Listing, y \in Listing}

-----------------------------------------------------------------------------
(* Handlers that call a Store getter while they hold the read lock.        *)

\* The superadmin's list comes from GetAllDisputes, the others' from the map.
ListDisputes ==
    SessionUser({<<"RLock", "Peer", "RUnlock">>,
                 <<"RLock">> \o R \o <<"Peer", "RUnlock">>})

\* A staff member's memberships are looked up with GetUserByID, one here.
GetDashboardStats ==
    SessionUser({<<"RLock", "Peer", "RUnlock">>,
                 <<"RLock">> \o R \o <<"Peer", "RUnlock">>})

\* Repair of at most one accepted invitation, then at most one membership.
ListStaff ==
    LET Repair == {<<>>, R, R \o R, R \o R \o R \o W}
        Member == {<<>>, <<"RLock">> \o R \o <<"RUnlock">> \o R \o R \o R \o R}
    IN Session({R \o x \o R \o y : x \in Repair, y \in Member})

\* The WebSocket handshake: a token no session has falls back to GetUserByID.
VerifyToken == {<<>>, R, <<"RLock">> \o R \o <<"RUnlock">>}

-----------------------------------------------------------------------------
(* Handlers that call a Store getter while they hold the write lock.       *)

\* Missing and foreign listings leave early; a known property also brings in
\* the commission settings and the jurisdictions.
UpdateListing ==
    Session({W} \cup {<<"Lock">> \o x \o <<"Unlock">> \o W : x \in {R, R \o R \o R}})

\* GetUltimateOwnerID alternates user and membership lookups, here for at
\* most one hop.
OwnerWalk == {R, R \o R, R \o R \o R}

\* A foreign property or one without images leaves after the walk; otherwise
\* CreateProperty and the membership lookup of BroadcastPropertySync follow.
PublishProperty ==
    Session({W} \cup {<<"Lock">> \o x \o y : x \in OwnerWalk,
                                              y \in {<<"Unlock">>, <<"Unlock">> \o W \o R}})

\* The same without the image gate.
UnpublishProperty == PublishProperty

SuspendUser == SessionUser({<<"Lock">> \o R \o x : x \in {<<"Unlock">>, <<"Unlock">> \o W}})

\* The verification is updated and saved, then the landlord is looked up
\* under the write lock.
VerifyKYC ==
    SessionUser({W} \cup {W \o W \o <<"Lock">> \o R \o x :
                             x \in {<<"Unlock">>, <<"Unlock">> \o W}})

ListApplications ==
    Session({<<"Lock">> \o R \o <<"Unlock">> \o x : x \in {<<>>, <<"Lock", "Peer", "Unlock">>}})

\* A session that is found answers from the map; one that is not is tried as
\* a user id with GetUserByID.
Me == {<<>>, W, <<"Lock">> \o R \o <<"Unlock">>}

-----------------------------------------------------------------------------
(* Handlers that unlock by hand and again in the deferred Unlock.          *)

\* No such property, which is answered under the lock; review entered.
SubmitReview == Session({<<"Lock", "Peer", "Unlock">>, W \o W \o <<"Unlock">>})

\* No such property, or not the caller's, both answered under the lock; no such
\* review; review answered.
RespondToReview ==
    Session({<<"Lock", "Peer", "Unlock">>, W \o <<"Unlock">>, W \o W \o <<"Unlock">>})
=============================================================================
