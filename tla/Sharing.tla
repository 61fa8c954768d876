------------------------------ MODULE Sharing ------------------------------
(***************************************************************************)
(* With whom this device shares its folders, as the user, introducers and  *)
(* devices whose folders are accepted automatically change it.             *)
(*                                                                         *)
(* ClusterConfig reads the sender's device configuration once, at its      *)
(* start, and hands the wrapper up to two modifications: one for automatic *)
(* accepts, and after the folders have been handled one for introductions. *)
(* Each is applied to the configuration of that moment, which is then      *)
(* prepared; others' modifications come in between.                        *)
(*                                                                         *)
(* Folders are not encrypted here; devices that have them encrypted are in *)
(* Tokens. Our own device, which is part of every folder, is left out.     *)
(***************************************************************************)
EXTENDS Naturals

CONSTANTS Peers,        \* other devices
          ShFolders,    \* folder IDs
          Known,        \* devices the user has added at first, all introducers
          Tokens,       \* <<folder, device>>: announced with a password token
          MaxEdits,     \* bound: modifications by the user
          MaxConfigs    \* bound: cluster configs

ASSUME SharingAssumption ==
    /\ Known \subseteq Peers /\ Tokens \subseteq ShFolders \X Peers
    /\ MaxEdits \in Nat /\ MaxConfigs \in Nat
    /\ "user" \notin Peers /\ "nobody" \notin Peers

VARIABLES
    shares,      \* folder, device: who made the share ("nobody": not shared)
    shFolders,   \* folders we have
    devs,        \* the devices in the configuration
    ccHandling,  \* ClusterConfig, per sender
    edits, configs   \* counters

sharingVars == <<shares, shFolders, devs, ccHandling, edits, configs>>

Unknown == [here |-> FALSE]
Device(by, introducer, skip, auto) ==
    [here |-> TRUE, by |-> by, introducer |-> introducer, skip |-> skip,
     auto |-> auto, untrusted |-> FALSE]

NoCC == [pc |-> "none"]

\* What a cluster config says: the devices of each folder, which include the
\* sender; {} for a folder that is not in it.  Which folders are in it matters
\* from the first modification on, which devices only for the second one.
CCs(p, offered) ==
    {[f \in ShFolders |-> IF f \in offered THEN {p} \union cc[f] ELSE {}] :
        cc \in [offered -> SUBSET (Peers \ {p})]}

SharedWith(f, d) == shares[f][d] # "nobody"

\* prepare: a folder is shared only with devices we know, and not with ones
\* that are untrusted, which are no introducers either and accept nothing.
Prepare(newShares, newDevs) ==
    /\ shares' = [f \in ShFolders |-> [d \in Peers |->
           IF ~newDevs[d].here \/ newDevs[d].untrusted THEN "nobody" ELSE newShares[f][d]]]
    /\ devs' = [d \in Peers |->
           IF newDevs[d].here /\ newDevs[d].untrusted
           THEN [newDevs[d] EXCEPT !.introducer = FALSE, !.auto = FALSE] ELSE newDevs[d]]

-----------------------------------------------------------------------------
(* Cluster configs.                                                        *)

\* ClusterConfig begins: an error for a device that is not configured.
CCBegins(p, offered) ==
    /\ ccHandling[p] = NoCC /\ configs < MaxConfigs
    /\ devs[p].here /\ (devs[p].auto \/ devs[p].introducer)
    /\ configs' = configs + 1
    /\ ccHandling' = [ccHandling EXCEPT ![p] =
           [pc |-> IF devs[p].auto THEN "accept" ELSE "introduce",
            offered |-> offered, introducer |-> devs[p].introducer, skip |-> devs[p].skip]]
    /\ UNCHANGED <<shares, shFolders, devs, edits>>

\* handleAutoAccepts: folders of the sender we do not have are added, if there
\* is a free path for them, the ones we have are shared with it.
CCAccepts(p, free) ==
    /\ ccHandling[p].pc = "accept"
    /\ LET offered == ccHandling[p].offered
           new == {f \in (offered \ shFolders) \intersect free : <<f, p>> \notin Tokens}
           joined == {f \in offered \intersect shFolders :
                        ~SharedWith(f, p) /\ <<f, p>> \notin Tokens}
       IN  /\ shFolders' = shFolders \union new
           /\ Prepare([f \in ShFolders |->
                         IF f \in new \union joined THEN [shares[f] EXCEPT ![p] = "user"]
                         ELSE shares[f]], devs)
    /\ ccHandling' = [ccHandling EXCEPT ![p] =
           IF @.introducer THEN [@ EXCEPT !.pc = "introduce"] ELSE NoCC]
    /\ UNCHANGED <<edits, configs>>

\* foldersDevices: what the introducer says of the folders we have.
Vouched(cc, f, d) == f \in shFolders /\ d \in cc[f]

\* handleIntroductions: devices, and shares with them, unless a password would
\* be needed.
IntroducedShares(p, cc) ==
    [f \in ShFolders |-> [d \in Peers |->
        IF Vouched(cc, f, d) /\ ~SharedWith(f, d) /\ <<f, d>> \notin Tokens
        THEN p ELSE shares[f][d]]]

\* introduceDevice: introducers of the introducer become ours, with
\* their setting of skipIntroductionRemovals.
IntroducedDevices(p, cc, theirs, skips) ==
    [d \in Peers |->
        IF ~devs[d].here /\ \E f \in ShFolders : Vouched(cc, f, d)
        THEN Device(p, d \in theirs, d \in skips, FALSE) ELSE devs[d]]

\* Mutant: only shares the user made keep a device.
NotIntroducedByUser(p, newShares, d) ==
    \E f \in ShFolders : newShares[f][d] = "user"

\* devicesNotIntroduced: somebody else shares a folder with the device.
NotIntroduced(p, newShares, d) ==
    \E f \in ShFolders : newShares[f][d] \notin {"nobody", p}

\* handleDeintroductions: shares of this introducer it no longer vouches for,
\* and devices it introduced that it no longer mentions, unless others do.
CCIntroduces(p, cc, theirs, skips) ==
    /\ ccHandling[p].pc = "introduce"
    /\ LET skip == ccHandling[p].skip
           s == IntroducedShares(p, cc)
           ds == IntroducedDevices(p, cc, theirs, skips)
           gone(f, d) == ~skip /\ s[f][d] = p /\ ~Vouched(cc, f, d)
           left(d) == /\ ~skip /\ ds[d].here /\ ds[d].by = p
                      /\ \A f \in ShFolders : ~Vouched(cc, f, d)
                      /\ ~NotIntroduced(p, s, d)
           changed == \/ s # shares
                      \/ \E d \in Peers : left(d) \/ \E f \in shFolders : gone(f, d)
       IN  IF changed
           THEN Prepare([f \in ShFolders |-> [d \in Peers |->
                            IF gone(f, d) THEN "nobody" ELSE s[f][d]]],
                        [d \in Peers |-> IF left(d) THEN Unknown ELSE ds[d]])
           ELSE UNCHANGED <<shares, devs>>
    /\ ccHandling' = [ccHandling EXCEPT ![p] = NoCC]
    /\ UNCHANGED <<shFolders, edits, configs>>

-----------------------------------------------------------------------------
(* The user.                                                               *)

UserEdits == edits < MaxEdits /\ edits' = edits + 1

UserShares(f, d) ==
    /\ UserEdits /\ f \in shFolders /\ devs[d].here
    /\ Prepare([shares EXCEPT ![f][d] = IF @ = "nobody" THEN "user" ELSE "nobody"], devs)
    /\ UNCHANGED <<shFolders, ccHandling, configs>>

UserFolder(f) ==
    /\ UserEdits
    /\ shFolders' = IF f \in shFolders THEN shFolders \ {f} ELSE shFolders \union {f}
    /\ Prepare([shares EXCEPT ![f] = [d \in Peers |-> "nobody"]], devs)
    /\ UNCHANGED <<ccHandling, configs>>

UserDevice(d, new) ==
    /\ UserEdits
    /\ Prepare(shares, [devs EXCEPT ![d] = new])
    /\ UNCHANGED <<shFolders, ccHandling, configs>>

\* Adding or removing a device, or changing one of its settings.
UserChoices(d) ==
    IF ~devs[d].here THEN {Device("user", i, FALSE, FALSE) : i \in BOOLEAN}
    ELSE {Unknown,
          [devs[d] EXCEPT !.introducer = ~@], [devs[d] EXCEPT !.skip = ~@],
          [devs[d] EXCEPT !.auto = ~@], [devs[d] EXCEPT !.untrusted = ~@]}

-----------------------------------------------------------------------------

SharingInit ==
    /\ shFolders \in SUBSET ShFolders
    /\ shares = [f \in ShFolders |-> [d \in Peers |->
                    IF f \in shFolders /\ d \in Known THEN "user" ELSE "nobody"]]
    /\ devs = [d \in Peers |-> IF d \in Known THEN Device("user", TRUE, FALSE, FALSE)
                               ELSE Unknown]
    /\ ccHandling = [p \in Peers |-> NoCC]
    /\ edits = 0 /\ configs = 0

SharingNext ==
    \/ \E p \in Peers :
          \/ \E offered \in SUBSET ShFolders : CCBegins(p, offered)
          \/ \E free \in SUBSET ShFolders : CCAccepts(p, free)
          \/ /\ ccHandling[p].pc = "introduce"
             /\ \E cc \in CCs(p, ccHandling[p].offered), theirs \in SUBSET (Peers \ Known) :
                   \E skips \in SUBSET theirs : CCIntroduces(p, cc, theirs, skips)
    \/ \E f \in ShFolders :
          UserFolder(f) \/ \E d \in Peers : UserShares(f, d)
    \/ \E d \in Peers : \E new \in UserChoices(d) : UserDevice(d, new)

SharingSpec == SharingInit /\ [][SharingNext]_sharingVars

-----------------------------------------------------------------------------

\* A share is taken away by the user, or by the introducer who made it: nothing
\* an introducer says or no longer says undoes what the user or another
\* introducer has set up, not even by removing the device.
SharesKept ==
    [][\A f \in ShFolders, d \in Peers :
          SharedWith(f, d) /\ ~SharedWith(f, d)' /\ edits' = edits =>
              LET by == shares[f][d]
              IN  by \in Peers /\ ccHandling[by].pc = "introduce" /\ ccHandling'[by] = NoCC
      ]_sharingVars
=============================================================================
