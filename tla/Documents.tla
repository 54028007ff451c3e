----------------------------- MODULE Documents -----------------------------
(***************************************************************************)
(* The files of a message: how a list of documents and a list of           *)
(* references to uploaded attachments (ext files) are checked, and in      *)
(* which order they are put into the request.                              *)
(***************************************************************************)
EXTENDS Naturals, Sequences

CONSTANTS Null,         \* no value, no data
          Guid          \* identifiers of documents within a message

\* What is wrong with a file that can be seen before it is sent: a mandatory
\* member is missing, or its type is none of enum isds_FileMetaType.
FileFault == {"IE_SUCCESS", "IE_INVAL", "IE_ENUM"}

File == [kind : {"dmFile", "dmExtFile"}, main : BOOLEAN,
         guid : Guid \cup {Null}, up : Guid \cup {Null}, fault : FileFault]

\* The place of the first document with an identifier, 0 if there is none.
FindDocument(documents, id) ==
    LET found == {i \in DOMAIN documents : documents[i] # Null /\ documents[i].guid = id}
    IN  IF found = {} THEN 0 ELSE CHOOSE i \in found : \A j \in found : i <= j

Mains(list) == {i \in DOMAIN list : list[i] # Null /\ list[i].main}
AllMains(documents, extFiles) ==
    ({"dmFile"} \X Mains(documents)) \cup ({"dmExtFile"} \X Mains(extFiles))

\* An identifier is found where it stands; a reference is found somewhere, the
\* document itself included.
DocumentFits(documents, i) ==
    /\ documents[i].guid # Null => FindDocument(documents, documents[i].guid) = i
    /\ documents[i].up # Null => FindDocument(documents, documents[i].up) # 0

\* Mutant: a second main file is let through.
CheckHierarchy_ManyMains(documents, extFiles) ==
    IF documents = <<>> /\ extFiles = <<>> THEN "IE_INVAL"
    ELSE IF /\ \A i \in DOMAIN documents : documents[i] # Null => DocumentFits(documents, i)
            /\ AllMains(documents, extFiles) # {}
         THEN "IE_SUCCESS" ELSE "IE_ERROR"

CheckHierarchy(documents, extFiles) ==
    IF documents = <<>> /\ extFiles = <<>> THEN "IE_INVAL"
    ELSE IF /\ \A i \in DOMAIN documents : documents[i] # Null => DocumentFits(documents, i)
            /\ \E main \in AllMains(documents, extFiles) :
                  AllMains(documents, extFiles) = {main}
         THEN "IE_SUCCESS" ELSE "IE_ERROR"

\* The main file goes first, wherever it stands in its list.
InsertFile(files, file) ==
    IF file.main THEN <<file>> \o files ELSE Append(files, file)

=============================================================================
