---------------------------- MODULE MCSyncDaemon ----------------------------
(* Instances of SyncDaemon for TLC.                                        *)
EXTENDS SyncDaemon

CONSTANTS root, draft, report

Drafts  == {draft}
Reports == {report}
None    == {}
=============================================================================
