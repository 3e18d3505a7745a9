---------------------------- MODULE MCTestSuite ----------------------------
EXTENDS TestSuite

AllGroups ==
  {"GrpAdminCreateIOCQCmd", "GrpAdminCreateIOSQCmd", "GrpAdminCreateIOQCmd",
   "GrpAdminDeleteIOCQCmd", "GrpAdminDeleteIOSQCmd", "GrpAdminIdentifyCmd",
   "GrpAdminGetFeatCmd", "GrpAdminSetFeatCmd", "GrpAdminGetLogPgCmd",
   "GrpAdminAsyncCmd", "GrpAdminSetGetFeatCombo", "GrpAdminNamespaceManagement",
   "GrpBasicInit", "GrpPciRegisters", "GrpCtrlRegisters", "GrpResets",
   "GrpInterrupts", "GrpNVMDatasetMgmtCmd", "GrpNVMFlushCmd", "GrpNVMReadCmd",
   "GrpNVMWriteCmd", "GrpNVMWriteReadCombo", "GrpGeneralCmds"}

Base == [rev |-> "10b", preserve |-> FALSE, rsvdfields |-> TRUE, sqs |-> 3,
         cqs |-> 2, mqes |-> 12, cqr |-> FALSE, irqs |-> 3, cqpp |-> 6,
         sqpp |-> 3, ns |-> <<"BARE", "METAS">>, nsze |-> 8, flaw |-> "none",
         aerl |-> 2, elpe |-> 1, npss |-> 1, lpa |-> TRUE, vwc |-> TRUE,
         nsmgmt |-> TRUE, sel |-> TRUE, rsrv |-> TRUE, lids |-> {},
         dulbe |-> TRUE, nsfeat |-> FALSE, msix |-> TRUE, keeps |-> TRUE,
         restore |-> TRUE, vs |-> 0, setAD |-> TRUE,
         active |-> {1, 2}, oacs |-> {"firmware"}, oncs |-> {"dsm", "zeroes"},
         thin |-> TRUE, mdts |-> 6, bpp |-> 2, groups |-> AllGroups,
         pcicaps |-> <<"PMCAP", "MSICAP", "PXCAP", "MSIXCAP", "AERCAP">>]

Revisions == <<Base, [Base EXCEPT !.rev = "11", !.vs = 1],
               [Base EXCEPT !.rev = "12", !.vs = 2]>>

\* Everything the tests claim to find, but for what they do not.
Missed ==
  {"Ring.many", "DatasetMgmt.prp2", "DatasetMgmt.attr", "Flush.meta",
   "GetFeatures.fid", "GetFeatures.select", "SetFeatures.vec1"}
FlawsOf(dv) ==
  UNION {UNION {p.matrix[i].test.finds : i \in DOMAIN p.matrix} :
           p \in Range(GroupsFor(dv))} \ Missed

Flawed(dv) ==
  FoldSet(LAMBDA f, devs : Append(devs, [dv EXCEPT !.flaw = f]), <<>>, FlawsOf(dv))

\* As many IO CQ's as SQ's, which MaxIOQ needs, and IO queues of six entries.
SameQueues == [Base EXCEPT !.cqs = 3, !.mqes = 6, !.groups = {"GrpQueues"}]

\* The user does not want the device written to.
Preserved == [Base EXCEPT !.preserve = TRUE, !.setAD = FALSE]

\* Only what the specification makes mandatory, and -y (--restore) not given.
Bare == [Base EXCEPT !.cqr = TRUE, !.lpa = FALSE, !.vwc = FALSE, !.mqes = 4,
                     !.keeps = FALSE, !.restore = FALSE, !.oncs = {}, !.thin = FALSE,
                     !.ns = <<"BARE">>, !.active = {1}, !.sqs = 2, !.cqs = 2]

\* A namespace that is not active, for the tests that ask about it.
Inactive == [Base EXCEPT !.rev = "12", !.vs = 2, !.active = {1},
                         !.groups = {"GrpNVMReadCmd", "GrpNVMWriteCmd"}]

Others ==
  <<SameQueues, [SameQueues EXCEPT !.preserve = TRUE, !.cqr = TRUE],
    Preserved, [Preserved EXCEPT !.rev = "11", !.vs = 1], Bare,
    [Base EXCEPT !.ns = <<"METAI", "BARE">>], Inactive>>

\* A flaw is tried with a later revision in the groups whose tests it changed.
ChangedGroups(dv, earlier) ==
  {p.grp : p \in Range(GroupsFor(dv))
             \ Range(ForEach(GroupsFor(earlier), LAMBDA q : <<[q EXCEPT !.d = dv]>>))}
ChangedIn(dv, earlier) == [dv EXCEPT !.groups = ChangedGroups(dv, earlier)]

MCDevices ==
  Revisions \o Others
    \o ForEach(<<Base, SameQueues, ChangedIn(Revisions[2], Base),
                 ChangedIn(Revisions[3], Revisions[2])>>, Flawed)
MCProgrammes == ProgrammesOf(MCDevices)

\* Revision 1.2 and -p.
PreservedR12 == ProgrammesOf(<<[Preserved EXCEPT !.rev = "12", !.vs = 2]>>)
=============================================================================
