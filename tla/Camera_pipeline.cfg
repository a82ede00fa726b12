SPECIFICATION CameraSpec
CONSTANTS
  Error = Error
  PresetChoices <- MCPresets
  CameraChoices <- MCCameras
  SelectorIds <- MCSelectors
  UnreadableChoices <- MCUnreadable
  SlamCameras <- MCSlamCameras
  BrokenChoices <- MCBroken
  UnstartableChoices <- MCUnstartable
  k1 = k1
  k2 = k2
  u1 = u1
  TagIds = {k1, k2, u1}
  KnownTags <- MCKnown
  Sightings <- MCSightings
  OptionChoices <- MCOptions
  MaxPackets = 3
  w1 = w1
  w2 = w2
  w3 = w3
  d1 = d1
  d2 = d2
  d3 = d3
  d4 = d4
  usb = usb
  pcie = pcie
  name = name
  any = any
  Workers = {w1, w2, w3}
  Devices = {d1, d2, d3, d4}
  AttributesOf <- MCAttributes
  AnyValues = {any}
  SelectorChoices <- MCDeviceSelectors
  RetryChoices <- MCRetries
  NoDevice = NoDevice
  Invalid = Invalid
  Nothing = Nothing
  FieldChoices <- MCFields
  FileChoices <- MCFiles
CHECK_DEADLOCK FALSE
INVARIANTS
  DependenciesMet
  OneOwner
  WhatWasAsked
  OptionalIsOptional
  NoPacketStranded
  GetsItsCamera
  FieldIntact
PROPERTIES
  RunsOn
