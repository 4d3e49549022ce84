CONSTANT MaxMsgs = 1
SPECIFICATION Spec
PROPERTY PastedOncePerAgent
