--------------------------- MODULE MCPdfPipeline ---------------------------
(* TLC instance of PdfPipeline: one document whose two files change. *)
EXTENDS PdfPipeline
=============================================================================
