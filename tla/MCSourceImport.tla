--------------------------- MODULE MCSourceImport ---------------------------
\* Two documents that collide under one stable name, a scanned PDF and a file
\* that is refused.
EXTENDS SourceImport

MCFiles ==
  {[name |-> "Call A.docx", stable |-> "call-a", holds |-> "text"],
   [name |-> "call-a.txt", stable |-> "call-a", holds |-> "text"],
   [name |-> "scan.pdf", stable |-> "scan", holds |-> "pages only"],
   [name |-> "broken.rtf", stable |-> "broken", holds |-> "nothing"]}
=============================================================================
