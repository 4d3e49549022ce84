CONSTANT MaxMsgs = 1
SPECIFICATION FairSpec
PROPERTIES PasteResolves
