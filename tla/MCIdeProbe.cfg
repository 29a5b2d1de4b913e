CONSTANT Attachments <- AllAttachments
SPECIFICATION FairProbe
INVARIANTS Listed OwnIdentity
PROPERTY ProbeEnds
CHECK_DEADLOCK FALSE
