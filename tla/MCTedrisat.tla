------------------------------ MODULE MCTedrisat ------------------------------
(***************************************************************************)
(* Instances of the services of tedrisat for TLC. Each works on tables of  *)
(* its own, so a behaviour is one of one service, the others at rest.      *)
(***************************************************************************)
EXTENDS LessonInvitations, StoredFiles, RecordingAnnouncements,
        PartnerEnrollments, Syllabus, TLC

CONSTANTS AnyPlace, Services

VARIABLE service

(* Every upload is of a file of one session.                               *)
OnePlace == [k \in Uploads |-> AnyPlace]

(* Requests are alike, and so are registrations; for safety only.          *)
SeatSymmetry == Permutations(Requests) \cup Permutations(Registrations)

allVars ==
    <<service, invitationVars, storageVars, announcementVars, enrollmentVars,
      syllabusVars>>

InvitationsRest ==
    /\ seat = [p \in Pairs |-> "left"]
    /\ live = [p \in Pairs |-> CHOOSE v \in Versions : TRUE]
    /\ when = [v \in Versions |-> "far"]
    /\ mailable = {}

AnnouncementsRest ==
    /\ recording = [l \in Sessions |-> "NONE"]
    /\ start = [l \in Sessions |-> 0]

SyllabusRests ==
    /\ week = [w \in Weeks |-> "none"]
    /\ weekOf = [s \in Lessons |-> CHOOSE w \in Weeks : TRUE]

ServicesInit ==
    /\ service \in Services
    /\ StorageInit
    /\ EnrollmentInit
    /\ InvitationInit /\ (service # "invitations" => InvitationsRest)
    /\ AnnouncementInit /\ (service # "announcements" => AnnouncementsRest)
    /\ SyllabusInit /\ (service # "syllabus" => SyllabusRests)

ServicesNext ==
    \/ /\ service = "invitations" /\ InvitationNext
       /\ UNCHANGED <<service, storageVars, announcementVars, enrollmentVars, syllabusVars>>
    \/ /\ service = "storage" /\ StorageNext
       /\ UNCHANGED <<service, invitationVars, announcementVars, enrollmentVars, syllabusVars>>
    \/ /\ service = "announcements" /\ AnnouncementNext
       /\ UNCHANGED <<service, invitationVars, storageVars, enrollmentVars, syllabusVars>>
    \/ /\ service = "enrollments" /\ EnrollmentNext
       /\ UNCHANGED <<service, invitationVars, storageVars, announcementVars, syllabusVars>>
    \/ /\ service = "syllabus" /\ SyllabusNext
       /\ UNCHANGED <<service, invitationVars, storageVars, announcementVars, enrollmentVars>>

ServicesSpec == ServicesInit /\ [][ServicesNext]_allVars

(* The fairness of the service at work.                                    *)
FairServices ==
    /\ ServicesSpec
    /\ \A i \in Sweepers :
           /\ WF_invitationVars(service = "invitations" /\ RoundGoesOn(i))
           /\ SF_invitationVars(service = "invitations" /\ Delivers(i))
    /\ \A k \in Uploads :
           /\ WF_storageVars(service = "storage" /\ UploadGoesOn(k))
           /\ SF_storageVars(service = "storage" /\ Deletes(k))
    /\ \A c \in Cleaners : WF_storageVars(service = "storage" /\ PassGoesOn(c))
    /\ <>[][service = "storage" => ~SomePassDies]_storageVars
    /\ \A c \in Callers : WF_announcementVars(service = "announcements" /\ CallerStep(c))
    /\ \A i \in Pollers : WF_announcementVars(service = "announcements" /\ PollerStep(i))

(* The type invariants of the five services.                               *)
ServicesTypeOK ==
    /\ InvitationTypeOK
    /\ StorageTypeOK
    /\ NewsTypeOK
    /\ SeatTypeOK
    /\ SyllabusTypeOK
===============================================================================
