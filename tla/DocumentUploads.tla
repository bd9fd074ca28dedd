-------------------------- MODULE DocumentUploads --------------------------
(* The check of an uploaded file: its size, its MIME type, its cleaned name *)
(* and what its content looks like.  A name is a sequence of characters,    *)
(* where "/" is a separator, "c" a control character, "_" and " " stand for *)
(* themselves, and an extension is one element; content is its kind.        *)
EXTENDS Naturals, Sequences

CONSTANTS
    MaxBytes,       \* maxDocumentUploadBytes
    NameLimit,      \* the longest name
    Error           \* what is refused

allowedExtensionsByMimeType ==
    [mimeType \in {"text/markdown", "text/plain", "application/pdf",
                   "image/jpeg", "image/png", "image/webp"} |->
       CASE mimeType = "text/markdown"   -> {".md"}
         [] mimeType = "text/plain"      -> {".txt"}
         [] mimeType = "application/pdf" -> {".pdf"}
         [] mimeType = "image/jpeg"      -> {".jpg", ".jpeg"}
         [] mimeType = "image/png"       -> {".png"}
         [] OTHER                        -> {".webp"}]

supportedDocumentMimeTypes == DOMAIN allowedExtensionsByMimeType

(* The extension under which the file is stored. *)
extensionByMimeType(mimeType) ==
    IF mimeType = "image/jpeg" THEN ".jpg"
    ELSE CHOOSE extension \in allowedExtensionsByMimeType[mimeType] : TRUE

Extensions == UNION {allowedExtensionsByMimeType[m] : m \in supportedDocumentMimeTypes}

trim(name) ==
    LET solid == {i \in DOMAIN name : name[i] # " "}
        First == CHOOSE i \in solid : \A j \in solid : i <= j
        Last == CHOOSE i \in solid : \A j \in solid : j <= i
    IN IF solid = {} THEN <<>> ELSE SubSeq(name, First, Last)

cleanFileName(name) ==
    LET Printed(character) == character # "c"
        joined == [i \in DOMAIN name |-> IF name[i] = "/" THEN "_" ELSE name[i]]
        clean == trim(SelectSeq(joined, Printed))
    IN SubSeq(clean, 1, IF Len(clean) < NameLimit THEN Len(clean) ELSE NameLimit)

(* A name that is nothing but an extension has none.                        *)
extname(name) ==
    IF Len(name) > 1 /\ name[Len(name)] \in Extensions THEN name[Len(name)] ELSE ""

(* The signatures of the binary types; text must be UTF-8 without a zero.   *)
validContent(mimeType, content) ==
    CASE mimeType = "application/pdf" -> content = "pdf"
      [] mimeType = "image/jpeg"      -> content = "jpeg"
      [] mimeType = "image/png"       -> content = "png"
      [] mimeType = "image/webp"      -> content = "webp"
      [] OTHER                        -> content \in {"text", "pdf"}

validateFile(file) ==
    LET name == cleanFileName(file.name)
    IN IF \/ file.size = 0 \/ file.size > MaxBytes
          \/ file.mimeType \notin supportedDocumentMimeTypes
          \/ name = <<>>
          \/ extname(name) \notin allowedExtensionsByMimeType[file.mimeType]
          \/ ~validContent(file.mimeType, file.content)
       THEN Error
       ELSE [file EXCEPT !.name = name]

(* The row's name is cleaned once more.                                     *)
upload(file) ==
    LET valid == validateFile(file)
    IN IF valid = Error THEN Error
       ELSE [fileName |-> cleanFileName(valid.name),
             extension |-> extensionByMimeType(valid.mimeType)]

-----------------------------------------------------------------------------
(* A file that is accepted keeps the name it was checked with when it is    *)
(* cleaned again, with an extension of its type, and no separators or       *)
(* control characters.  A name is cut before its extension is looked at: a  *)
(* long one is refused, unless the cut itself ends with an extension.       *)
AcceptedNamesStay(file) ==
    LET row == upload(file)
        Printed(character) == character # "c"
        whole == trim(SelectSeq(file.name, Printed))
    IN row # Error =>
         /\ row.fileName = validateFile(file).name
         /\ extname(row.fileName) \in allowedExtensionsByMimeType[file.mimeType]
         /\ row.extension \in allowedExtensionsByMimeType[file.mimeType]
         /\ \A i \in DOMAIN row.fileName : row.fileName[i] \notin {"/", "c"}
         /\ Len(whole) > NameLimit => whole[NameLimit] \in Extensions
=============================================================================
