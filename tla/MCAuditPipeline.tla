--------------------------- MODULE MCAuditPipeline ---------------------------
EXTENDS AuditPipeline

CONSTANTS override, newer
=============================================================================
