---------------------------- MODULE ServicesProofs ----------------------------
(***************************************************************************)
(* What is proved of each service of tedrisat holds of the five together,  *)
(* as MCTedrisat composes them: a behaviour of the composition is one of   *)
(* every service.                                                          *)
(***************************************************************************)
EXTENDS MCTedrisat, InvitationsProofs, StoredFilesProofs, AnnouncementsProofs,
        PartnerEnrollmentsProofs, SyllabusProofs

(* A step of the composition is a step of the service at work, and leaves  *)
(* the tables of every other service alone.                                *)
LEMMA ServiceSteps ==
    ASSUME [ServicesNext]_allVars
    PROVE  /\ [InvitationNext]_invitationVars
           /\ [StorageNext]_storageVars
           /\ [AnnouncementNext]_announcementVars
           /\ [EnrollmentNext]_enrollmentVars
           /\ [SyllabusNext]_syllabusVars
BY DEF ServicesNext, allVars

(* The services run on tables of their own: a behaviour of the five is a   *)
(* behaviour of each.                                                      *)
THEOREM ServicesCompose ==
    ServicesSpec => /\ InvitationSpec
                    /\ StorageSpec
                    /\ AnnouncementSpec
                    /\ EnrollmentSpec
                    /\ SyllabusSpec
<1>1. ServicesInit => /\ InvitationInit /\ StorageInit /\ AnnouncementInit
                      /\ EnrollmentInit /\ SyllabusInit
  BY DEF ServicesInit
<1>. QED
  BY <1>1, ServiceSteps, PTL
  DEF ServicesSpec, InvitationSpec, StorageSpec, AnnouncementSpec, EnrollmentSpec, SyllabusSpec

(* Every variable of the five services keeps its type, with every fault    *)
(* and any number of instances and requests.                               *)
THEOREM ServicesTypeCorrect == ServicesSpec => []ServicesTypeOK
BY ServicesCompose, InvitationTypeCorrect, StorageTypeCorrect, NewsTypeCorrect, SeatTypeCorrect,
   SyllabusTypeCorrect, PTL DEF ServicesTypeOK

(* What the runs `services` and `services_races` check of safety and the   *)
(* prover reaches, of the five services at once and for every value of the *)
(* constants. One instance sweeps invitations and hears its answers; no    *)
(* upload outlasts the hour of its reservation or loses the answer of its  *)
(* commit. Instances die, partner requests overlap one another, the        *)
(* talebe's and the team's, purges run without the lock, and restores      *)
(* interleave with every write.                                            *)
THEOREM ServicesSafe ==
    ASSUME OneSweep, Heard, Punctual
    PROVE  ServicesSpec =>
               /\ []RecordedIsStored
               /\ []OthersAreQueued
               /\ SequencesRise
               /\ KeepsPromise
               /\ RecordsStand
               /\ SeatIsShared
               /\ SavesWhatWasShown
               /\ RestoredAsHidden
               /\ ShownByOlderReadOnly
<1>1. InvitationSpec => SequencesRise
  BY MessagesRise
<1>2. StorageSpec => []RecordedIsStored /\ []OthersAreQueued
  BY RecordedStaysStored, QueueKnowsOthers
<1>3. SyllabusSpec => SavesWhatWasShown /\ RestoredAsHidden /\ ShownByOlderReadOnly
  BY SaveIsCurrent, WeekComesBackAsHidden, AstrayByOlderRead
<1>4. EnrollmentSpec => RecordsStand /\ SeatIsShared
  BY RecordsAreKept, SeatImplementsShared
<1>. QED
  BY <1>1, <1>2, <1>3, <1>4, AnnouncementsKeepPromise, ServicesCompose

(* Where every message's outcome is known too, the calendars' invariants   *)
(* hold with them.                                                         *)
THEOREM CalendarsSafe ==
    ASSUME OneSweep, Sure
    PROVE  ServicesSpec => []RowIsNewestTold /\ []ShownIsRemembered /\ CancelsRepeat
BY RowIsNewest, RowOutlivesSession, CancelsFollow, ServicesCompose

===============================================================================
